---- MODULE Spec2Model ----
(***************************************************************************)
(* Model of the blueprint registry (blueprint/registry.py): discovery of   *)
(* blueprint classes in template directories, name derivation, lookup,     *)
(* the static listing path and its cache.                                  *)
(***************************************************************************)
EXTENDS Integers, Sequences, FiniteSets, TLC

VARIABLES
    fs,         \* the template files on disk: file -> the text it holds
    envPath,    \* BLUEPRINT_TEMPLATE_PATH, already split at ":" (a sequence of paths)
    cwd,        \* the working directory of the process
    registry,   \* the BlueprintRegistry instance: a record of its five fields
    last,       \* the last call made on the registry and its outcome
    changes,    \* number of changes made to the files and the environment so far
    ident,      \* name derivation: the class identifier given
    key,        \* name derivation: the key derived from it
    pc,         \* "input" before the operation under study is applied, "done" after it
    arg,        \* the input of an operation that is studied on its own
    ret         \* what that operation did and produced

vars == <<fs, envPath, cwd, registry, last, changes, ident, key, pc, arg, ret>>

(***************************************************************************)
(* Characters.  An identifier is a sequence of one-character strings.     *)
(***************************************************************************)
UpperSeq == <<"A","B","C","D","E","F","G","H","I","J","K","L","M",
              "N","O","P","Q","R","S","T","U","V","W","X","Y","Z">>
LowerSeq == <<"a","b","c","d","e","f","g","h","i","j","k","l","m",
              "n","o","p","q","r","s","t","u","v","w","x","y","z">>
Upper == {UpperSeq[i] : i \in DOMAIN UpperSeq}
Lower == {LowerSeq[i] : i \in DOMAIN LowerSeq}
Digit == {"0","1","2","3","4","5","6","7","8","9"}

\* str.lower() on one character
ToLower(c) ==
    IF c \in Upper
    THEN LowerSeq[CHOOSE i \in DOMAIN UpperSeq : UpperSeq[i] = c]
    ELSE c

\* str.lower()
LowerStr(s) == [i \in DOMAIN s |-> ToLower(s[i])]

(***************************************************************************)
(* re.sub("([A-Z]+)([A-Z][a-z])", r"\1_\2", s): leftmost, non-overlapping  *)
(* matches; the first group is greedy and gives characters back until the  *)
(* second group matches.  MatchEnd1(s, i) is the index of the last         *)
(* character of group 1 for a match starting at i, or 0 when there is no   *)
(* match at i.                                                             *)
(***************************************************************************)
AllUpper(s, i, k) == \A j \in i..k : s[j] \in Upper

MatchEnd1(s, i) ==
    LET ks == {k \in i..(Len(s) - 2) :
                  /\ AllUpper(s, i, k)
                  /\ s[k + 1] \in Upper
                  /\ s[k + 2] \in Lower}
    IN  IF ks = {} THEN 0 ELSE CHOOSE k \in ks : \A m \in ks : m <= k

RECURSIVE Sub1From(_, _)
Sub1From(s, i) ==
    IF i > Len(s) THEN <<>>
    ELSE LET k == MatchEnd1(s, i)
         IN  IF k = 0
             THEN <<s[i]>> \o Sub1From(s, i + 1)
             ELSE SubSeq(s, i, k) \o <<"_", s[k + 1], s[k + 2]>> \o Sub1From(s, k + 3)

Sub1(s) == Sub1From(s, 1)

(***************************************************************************)
(* re.sub(r"([a-z\d])([A-Z])", r"\1_\2", s)                                *)
(***************************************************************************)
RECURSIVE Sub2From(_, _)
Sub2From(s, i) ==
    IF i > Len(s) THEN <<>>
    ELSE IF i < Len(s) /\ s[i] \in (Lower \cup Digit) /\ s[i + 1] \in Upper
         THEN <<s[i], "_", s[i + 1]>> \o Sub2From(s, i + 2)
         ELSE <<s[i]>> \o Sub2From(s, i + 1)

Sub2(s) == Sub2From(s, 1)

\* a plausible slip: the acronym pass left out
GetBlueprintName_NoAcronymPass(class_name) == LowerStr(Sub2(class_name))

\* BlueprintRegistry._get_blueprint_name
GetBlueprintName(class_name) == LowerStr(Sub2(Sub1(class_name)))

(***************************************************************************)
(* Bounds and inputs of the name derivation.                               *)
(***************************************************************************)
MaxIdentLen == 4

IdentAlphabet == {"A", "B", "a", "1", "_"}

RECURSIVE SeqsUpTo(_, _)
SeqsUpTo(S, n) ==
    IF n = 0 THEN {<<>>}
    ELSE LET shorter == SeqsUpTo(S, n - 1)
         IN  shorter \cup {Append(s, c) : s \in {t \in shorter : Len(t) = n - 1}, c \in S}

DailyETLJob == <<"D","a","i","l","y","E","T","L","J","o","b">>
MultiSourceETL == <<"M","u","l","t","i","S","o","u","r","c","e","E","T","L">>
Http2Server == <<"H","t","t","p","2","S","e","r","v","e","r">>

Idents == SeqsUpTo(IdentAlphabet, MaxIdentLen) \cup {DailyETLJob, MultiSourceETL, Http2Server}

(***************************************************************************)
(* Paths.  A path is the sequence of its components; an absolute path      *)
(* starts with "/", and Path(".") is the empty sequence.                   *)
(***************************************************************************)
DirA == <<"/", "x", "a">>
DirB == <<"/", "x", "b">>
AirflowHome == <<"/", "usr", "local", "airflow">>
\* default_path = Path(airflow_home) / ".astro" / "templates"
DefaultPath == AirflowHome \o <<".astro", "templates">>
\* local_path = Path(".astro/templates")
LocalPath == <<".astro", "templates">>
\* a working directory other than AIRFLOW_HOME
WorkDir == <<"/", "w">>

IsAbsolute(p) == Len(p) > 0 /\ p[1] = "/"

\* the directory a path denotes
Resolve(p) == IF IsAbsolute(p) THEN p ELSE cwd \o p

\* Path.parent: the root and "." are their own parents
Parent(p) ==
    IF p = <<"/">> \/ p = <<>> THEN p ELSE SubSeq(p, 1, Len(p) - 1)

\* Path.parents
Parents(p) == {SubSeq(p, 1, n) : n \in (IF IsAbsolute(p) THEN 1 ELSE 0)..(Len(p) - 1)}

\* Path.relative_to, for a base that is a prefix of p
RelativeTo(p, base) == SubSeq(p, Len(base) + 1, Len(p))

(***************************************************************************)
(* Template files.  A file declares classes; each declaration has the      *)
(* class identifier and the form of the declaration:                       *)
(*   direct   - module-level "class X(Blueprint)" or "class X(Blueprint[C])"*)
(*   indirect - module-level class whose base is another blueprint class,  *)
(*              or is written "module.Blueprint"                           *)
(*   nested   - "class X(Blueprint[C])" inside a function or class body    *)
(*   alias    - a second module-level name bound to a class of the file,   *)
(*              "Y = X"                                                    *)
(*   imported - a class another template file defines, bound by            *)
(*              "from f import X"                                          *)
(* status: "ok", "import_error" (parses, executing it raises an Exception) *)
(* or "syntax_error" (neither parses nor executes).                        *)
(***************************************************************************)
ETLJob == <<"E", "T", "L", "J", "o", "b">>
EtlJob == <<"E", "t", "l", "J", "o", "b">>
NewBp == <<"N", "e", "w">>

NoFile == [status |-> "absent", decls |-> <<>>]

Decl(c, f) == [cls |-> c, form |-> f]

\* the texts a template file can hold, by name, and what each declares
SourceOf ==
    [t \in {"absent", "ETLJob", "EtlJob", "NewBp", "NewBp, fails", "syntax error",
            "NewBp, ETLJob(NewBp)", "ETLJob, nested NewBp",
            "ETLJob, Job = ETLJob", "from f import ETLJob"} |->
        CASE t = "absent" -> NoFile
          [] t = "ETLJob" -> [status |-> "ok", decls |-> <<Decl(ETLJob, "direct")>>]
          [] t = "EtlJob" -> [status |-> "ok", decls |-> <<Decl(EtlJob, "direct")>>]
          [] t = "NewBp" -> [status |-> "ok", decls |-> <<Decl(NewBp, "direct")>>]
          [] t = "NewBp, fails" ->
                [status |-> "import_error", decls |-> <<Decl(NewBp, "direct")>>]
          [] t = "syntax error" -> [status |-> "syntax_error", decls |-> <<>>]
          [] t = "NewBp, ETLJob(NewBp)" ->
                [status |-> "ok",
                 decls |-> <<Decl(NewBp, "direct"), Decl(ETLJob, "indirect")>>]
          [] t = "ETLJob, nested NewBp" ->
                [status |-> "ok",
                 decls |-> <<Decl(ETLJob, "direct"), Decl(NewBp, "nested")>>]
          [] t = "ETLJob, Job = ETLJob" ->
                [status |-> "ok",
                 decls |-> <<Decl(ETLJob, "direct"), Decl(ETLJob, "alias")>>]
          [] t = "from f import ETLJob" ->
                [status |-> "ok", decls |-> <<Decl(ETLJob, "imported")>>]]

FileNames == {"f.py", "g.py", "_p.py"}

\* py_file.name.startswith("_")
IsPrivate(fname) == fname = "_p.py"

\* the files that can exist: <<directory, file name>>
AllFiles == {<<DirA, "f.py">>, <<DirA, "g.py">>, <<DirB, "f.py">>, <<DirB, "_p.py">>}

\* the texts each file can hold when it exists
Contents(f) ==
    CASE f = <<DirA, "f.py">> -> {"ETLJob", "NewBp", "NewBp, fails"}
      [] f = <<DirA, "g.py">> -> {"EtlJob", "syntax error"}
      [] f = <<DirB, "f.py">> -> {"ETLJob", "NewBp, ETLJob(NewBp)", "ETLJob, nested NewBp"}
      [] f = <<DirB, "_p.py">> -> {"NewBp"}

\* the states of the template files: the private file is always there
FileSystems ==
    {f \in [AllFiles -> DOMAIN SourceOf] :
        /\ \A x \in AllFiles : f[x] \in Contents(x) \cup {"absent"}
        /\ f[<<DirB, "_p.py">>] # "absent"}

\* Path.exists() of a directory: DirA and DirB always exist, any other
\* directory exists when it holds a file
DirExists(fsys, p) ==
    \/ Resolve(p) \in {DirA, DirB}
    \/ \E f \in DOMAIN fsys : f[1] = Resolve(p) /\ fsys[f] # "absent"

\* the content of file fname of directory p
FileAt(fsys, p, fname) ==
    IF <<Resolve(p), fname>> \in DOMAIN fsys
    THEN SourceOf[fsys[<<Resolve(p), fname>>]] ELSE NoFile

(***************************************************************************)
(* directory.glob("*.py"): the directory's files in the order the          *)
(* operating system lists them, which is unspecified; ord is that order,   *)
(* a permutation of all file names.  The two orders taken list f.py and    *)
(* g.py, the only two files one directory can hold together with effect,   *)
(* either way round.                                                       *)
(***************************************************************************)
GlobOrders == {<<"f.py", "g.py", "_p.py">>, <<"g.py", "_p.py", "f.py">>}

\* the orders to consider for a listing of the files that happens only when
\* needed is TRUE: a call that lists no directory has one outcome
OrdersIf(needed) == IF needed THEN GlobOrders ELSE {<<"f.py", "g.py", "_p.py">>}

Glob(fsys, p, ord) == SelectSeq(ord, LAMBDA n : FileAt(fsys, p, n).status # "absent")

(***************************************************************************)
(* The registry.  A map (dict) is a function whose domain is its key set.  *)
(***************************************************************************)
EmptyMap == <<>>

\* Optional values: None, or the value wrapped
None == <<>>
Some(v) == <<v>>

Put(m, k, v) == [x \in (DOMAIN m) \cup {k} |-> IF x = k THEN v ELSE m[x]]

\* BlueprintRegistry.__init__
NewRegistry ==
    [blueprints |-> EmptyMap,
     blueprint_locations |-> EmptyMap,
     discovered |-> FALSE,
     template_dirs |-> <<>>,
     cached_list |-> None]

\* BLUEPRINT_TEMPLATE_PATH entries; <<>> is an empty entry ("a::b")
EnvChoices == {<<DirA>>, <<DirA, DirB>>, <<DirB, DirA>>, <<DirB, <<>>, DirB>>}

\* a slip: the local directory is appended whether it exists or not
GetTemplateDirs_LocalAlways(fsys, env) ==
    LET fromEnv == SelectSeq(env, LAMBDA e : e # <<>>)
        inSeq(q, x) == \E i \in DOMAIN q : q[i] = x
        withDefault == IF ~inSeq(fromEnv, DefaultPath)
                       THEN Append(fromEnv, DefaultPath) ELSE fromEnv
    IN  IF ~inSeq(withDefault, LocalPath)
        THEN Append(withDefault, LocalPath) ELSE withDefault

\* BlueprintRegistry.get_template_dirs
GetTemplateDirs(fsys, env) ==
    LET fromEnv == SelectSeq(env, LAMBDA e : e # <<>>)
        inSeq(q, x) == \E i \in DOMAIN q : q[i] = x
        withDefault == IF ~inSeq(fromEnv, DefaultPath)
                       THEN Append(fromEnv, DefaultPath) ELSE fromEnv
    IN  IF ~inSeq(withDefault, LocalPath) /\ DirExists(fsys, LocalPath)
        THEN Append(withDefault, LocalPath) ELSE withDefault

\* the identifiers of the classes the template files declare
ClassIdents == {ETLJob, EtlJob, NewBp}

\* self._get_blueprint_name(...) of each declared class, computed once
BlueprintNameOf == [c \in ClassIdents |-> GetBlueprintName(c)]

\* the class object a declaration of file fname of directory creates
ClassObj(directory, fname, d) ==
    [name |-> d.cls, file |-> <<Resolve(directory), fname>>]

\* location = f"{py_file.relative_to(directory.parent.parent)}"
Location(directory, fname) ==
    RelativeTo(directory \o <<fname>>, Parent(Parent(directory)))

\* the declarations that dir(module) shows as Blueprint subclasses: a class
\* statement at module level and any other module-level name bound to a
\* blueprint class
ImportForms == {"direct", "indirect", "alias", "imported"}

\* lines 98-107 of _discover_in_directory: one blueprint class is recorded
RegisterClass(reg, directory, fname, d) ==
    LET blueprint_name == BlueprintNameOf[d.cls]
        old == IF blueprint_name \in DOMAIN reg.blueprint_locations
               THEN reg.blueprint_locations[blueprint_name] ELSE <<>>
    IN  [reg EXCEPT
            !.blueprint_locations =
                Put(reg.blueprint_locations, blueprint_name,
                    Append(old, Location(directory, fname))),
            !.blueprints =
                Put(reg.blueprints, blueprint_name, ClassObj(directory, fname, d))]

RECURSIVE RegisterDecls(_, _, _, _, _)
RegisterDecls(reg, directory, fname, decls, i) ==
    IF i > Len(decls) THEN reg
    ELSE RegisterDecls(
            IF decls[i].form \in ImportForms
            THEN RegisterClass(reg, directory, fname, decls[i]) ELSE reg,
            directory, fname, decls, i + 1)

\* a slip: a file that fails to execute still gets its classes recorded
DiscoverFile_KeepFailed(reg, fsys, directory, fname) ==
    LET file == FileAt(fsys, directory, fname)
    IN  IF IsPrivate(fname) THEN reg
        ELSE RegisterDecls(reg, directory, fname, file.decls, 1)

\* the body of the loop of _discover_in_directory for one file
DiscoverFile(reg, fsys, directory, fname) ==
    LET file == FileAt(fsys, directory, fname)
    IN  IF IsPrivate(fname) THEN reg
        ELSE IF file.status # "ok" THEN reg   \* except Exception: warn, continue
        ELSE RegisterDecls(reg, directory, fname, file.decls, 1)

RECURSIVE DiscoverFiles(_, _, _, _, _)
DiscoverFiles(reg, fsys, directory, files, i) ==
    IF i > Len(files) THEN reg
    ELSE DiscoverFiles(DiscoverFile(reg, fsys, directory, files[i]),
                       fsys, directory, files, i + 1)

\* BlueprintRegistry._discover_in_directory
DiscoverInDirectory(reg, fsys, directory, ord) ==
    DiscoverFiles(reg, fsys, directory, Glob(fsys, directory, ord), 1)

RECURSIVE DiscoverDirs(_, _, _, _, _)
DiscoverDirs(reg, fsys, dirs, ord, i) ==
    IF i > Len(dirs) THEN reg
    ELSE DiscoverDirs(
            IF DirExists(fsys, dirs[i])
            THEN DiscoverInDirectory(reg, fsys, dirs[i], ord) ELSE reg,
            fsys, dirs, ord, i + 1)

\* a slip: the early return ignores the discovered flag
DiscoverBlueprints_NoEarlyReturn(reg, force, fsys, dirs, ord) ==
    [DiscoverDirs([NewRegistry EXCEPT !.template_dirs = dirs], fsys, dirs, ord, 1)
        EXCEPT !.discovered = TRUE]

\* a slip: the maps are not cleared before a pass
DiscoverBlueprints_NoClear(reg, force, fsys, dirs, ord) ==
    IF reg.discovered /\ ~force THEN reg
    ELSE [DiscoverDirs([reg EXCEPT !.template_dirs = dirs, !.cached_list = None],
                       fsys, dirs, ord, 1)
            EXCEPT !.discovered = TRUE]

\* a slip: a pass keeps the cached listing
DiscoverBlueprints_KeepCache(reg, force, fsys, dirs, ord) ==
    IF reg.discovered /\ ~force THEN reg
    ELSE [DiscoverDirs([reg EXCEPT !.blueprints = EmptyMap,
                                   !.blueprint_locations = EmptyMap,
                                   !.template_dirs = dirs],
                       fsys, dirs, ord, 1)
            EXCEPT !.discovered = TRUE]

\* BlueprintRegistry.discover_blueprints; dirs is what self.get_template_dirs()
\* returns when the pass runs
DiscoverBlueprints(reg, force, fsys, dirs, ord) ==
    IF reg.discovered /\ ~force THEN reg
    ELSE [DiscoverDirs([reg EXCEPT !.blueprints = EmptyMap,
                                   !.blueprint_locations = EmptyMap,
                                   !.cached_list = None,
                                   !.template_dirs = dirs],
                       fsys, dirs, ord, 1)
            EXCEPT !.discovered = TRUE]

(***************************************************************************)
(* Outcomes of a call: the exception raised, if any, and what it carries,  *)
(* or the value returned.                                                  *)
(***************************************************************************)
NoOut ==
    [raised |-> "none", value |-> None, err_name |-> <<>>,
     err_locations |-> <<>>, err_available |-> {}]

Returned(v) == [NoOut EXCEPT !.value = Some(v)]

\* DuplicateBlueprintError(blueprint_name, locations)
DuplicateBlueprintError(blueprint_name, locations) ==
    [NoOut EXCEPT !.raised = "DuplicateBlueprintError",
                  !.err_name = blueprint_name, !.err_locations = locations]

\* BlueprintNotFoundError(blueprint_name, available_blueprints)
BlueprintNotFoundError(blueprint_name, available) ==
    [NoOut EXCEPT !.raised = "BlueprintNotFoundError",
                  !.err_name = blueprint_name, !.err_available = available]

\* a slip: the registered class is returned although the name has two locations
GetBlueprintLookup_LastWins(reg, name) ==
    IF name \notin DOMAIN reg.blueprints
    THEN BlueprintNotFoundError(name, DOMAIN reg.blueprints)
    ELSE Returned(reg.blueprints[name])

\* a slip: any duplicated name makes every lookup raise
GetBlueprintLookup_AnyDuplicate(reg, name) ==
    IF \E n \in DOMAIN reg.blueprint_locations : Len(reg.blueprint_locations[n]) > 1
    THEN DuplicateBlueprintError(name, IF name \in DOMAIN reg.blueprint_locations
                                       THEN reg.blueprint_locations[name] ELSE <<>>)
    ELSE IF name \in DOMAIN reg.blueprints
         THEN Returned(reg.blueprints[name])
         ELSE BlueprintNotFoundError(name, DOMAIN reg.blueprints)

\* a slip: a miss falls back to some registered class
GetBlueprintLookup_Fallback(reg, name) ==
    IF name \in DOMAIN reg.blueprint_locations /\ Len(reg.blueprint_locations[name]) > 1
    THEN DuplicateBlueprintError(name, reg.blueprint_locations[name])
    ELSE IF name \notin DOMAIN reg.blueprints
         THEN IF DOMAIN reg.blueprints = {}
              THEN BlueprintNotFoundError(name, DOMAIN reg.blueprints)
              ELSE Returned(reg.blueprints[CHOOSE n \in DOMAIN reg.blueprints : TRUE])
         ELSE Returned(reg.blueprints[name])

\* lines 136-144 of get_blueprint: the lookup after discovery has run
GetBlueprintLookup(reg, name) ==
    IF name \in DOMAIN reg.blueprint_locations /\ Len(reg.blueprint_locations[name]) > 1
    THEN DuplicateBlueprintError(name, reg.blueprint_locations[name])
    ELSE IF name \notin DOMAIN reg.blueprints
         THEN BlueprintNotFoundError(name, DOMAIN reg.blueprints)
         ELSE Returned(reg.blueprints[name])

\* BlueprintRegistry.get_blueprint: the registry afterwards and the outcome
GetBlueprint(reg, name, fsys, dirs, ord) ==
    LET reg1 == DiscoverBlueprints(reg, FALSE, fsys, dirs, ord)
    IN  [reg |-> reg1, out |-> GetBlueprintLookup(reg1, name)]

(***************************************************************************)
(* The static listing path.                                                *)
(***************************************************************************)
\* BlueprintRegistry._is_blueprint_class_ast, for a ClassDef that ast.walk
\* meets: a base written Blueprint or Blueprint[...]
IsBlueprintClassAst(d) == d.form \in {"direct", "nested"}

\* the scan state: the two local dicts and the error raised, if any
ScanStart == [blueprints |-> EmptyMap, blueprint_locations |-> EmptyMap, out |-> NoOut]

\* a slip: a second declaration of a name silently replaces the first
ScanClass_Overwrite(st, template_dir, fname, d) ==
    LET blueprint_name == BlueprintNameOf[d.cls]
        location == Location(template_dir, fname)
    IN  [st EXCEPT !.blueprints =
            Put(st.blueprints, blueprint_name,
                [name |-> blueprint_name, class |-> d.cls, module |-> location,
                 locations |-> <<location>>])]

\* lines 186-222 of _list_blueprints_without_import: one blueprint ClassDef
ScanClass(st, template_dir, fname, d) ==
    LET blueprint_name == BlueprintNameOf[d.cls]
        py_file == template_dir \o <<fname>>
        location == IF Parent(Parent(template_dir)) \in Parents(py_file)
                    THEN RelativeTo(py_file, Parent(Parent(template_dir)))
                    ELSE py_file
        old == IF blueprint_name \in DOMAIN st.blueprint_locations
               THEN st.blueprint_locations[blueprint_name] ELSE <<>>
        locs == Put(st.blueprint_locations, blueprint_name, Append(old, location))
    IN  IF blueprint_name \in DOMAIN st.blueprints
        THEN [st EXCEPT !.blueprint_locations = locs,
                        !.out = DuplicateBlueprintError(blueprint_name, locs[blueprint_name])]
        ELSE [st EXCEPT !.blueprint_locations = locs,
                        !.blueprints =
                            Put(st.blueprints, blueprint_name,
                                [name |-> blueprint_name, class |-> d.cls,
                                 module |-> location, locations |-> <<location>>])]

RECURSIVE ScanDecls(_, _, _, _, _)
ScanDecls(st, template_dir, fname, decls, i) ==
    IF i > Len(decls) \/ st.out.raised # "none" THEN st
    ELSE ScanDecls(
            IF IsBlueprintClassAst(decls[i])
            THEN ScanClass(st, template_dir, fname, decls[i]) ELSE st,
            template_dir, fname, decls, i + 1)

\* the body of the file loop: a file that does not parse is skipped, a
\* DuplicateBlueprintError is raised again
ScanFile(st, fsys, template_dir, fname) ==
    LET file == FileAt(fsys, template_dir, fname)
    IN  IF IsPrivate(fname) THEN st
        ELSE IF file.status = "syntax_error" THEN st
        ELSE ScanDecls(st, template_dir, fname, file.decls, 1)

RECURSIVE ScanFiles(_, _, _, _, _)
ScanFiles(st, fsys, template_dir, files, i) ==
    IF i > Len(files) \/ st.out.raised # "none" THEN st
    ELSE ScanFiles(ScanFile(st, fsys, template_dir, files[i]),
                   fsys, template_dir, files, i + 1)

RECURSIVE ScanDirs(_, _, _, _, _)
ScanDirs(st, fsys, dirs, ord, i) ==
    IF i > Len(dirs) \/ st.out.raised # "none" THEN st
    ELSE ScanDirs(
            IF ~DirExists(fsys, dirs[i]) THEN st
            ELSE ScanFiles(st, fsys, dirs[i], Glob(fsys, dirs[i], ord), 1),
            fsys, dirs, ord, i + 1)

\* BlueprintRegistry._list_blueprints_without_import.  The listing returned is
\* sorted by name and holds one entry per name: it is the map name -> entry
ListBlueprintsWithoutImport(fsys, dirs, ord) ==
    LET st == ScanDirs(ScanStart, fsys, dirs, ord, 1)
    IN  IF st.out.raised # "none" THEN st.out ELSE Returned(st.blueprints)

\* BlueprintRegistry.list_blueprints: the registry afterwards and the outcome
ListBlueprints(reg, fsys, dirs, ord, ord2) ==
    LET reg1 == DiscoverBlueprints(reg, FALSE, fsys, dirs, ord)
        scan == ListBlueprintsWithoutImport(fsys, dirs, ord2)
    IN  IF reg1.cached_list # None
        THEN [reg |-> reg1, out |-> Returned(reg1.cached_list[1])]
        ELSE IF scan.raised # "none"
        THEN [reg |-> reg1, out |-> scan]
        ELSE [reg |-> [reg1 EXCEPT !.cached_list = scan.value], out |-> scan]

\* BlueprintRegistry.get_blueprint_info: get_blueprint, then the description
\* of the class (the schema is not modelled)
GetBlueprintInfo(reg, name, fsys, dirs, ord) ==
    LET got == GetBlueprint(reg, name, fsys, dirs, ord)
    IN  IF got.out.raised # "none" THEN got
        ELSE [reg |-> got.reg,
              out |-> Returned([name |-> name, class |-> got.out.value[1].name,
                                locations |-> got.reg.blueprint_locations[name]])]

\* a slip: the locations survive a clear
Clear_KeepLocations(reg) ==
    [reg EXCEPT !.blueprints = EmptyMap, !.discovered = FALSE]

\* BlueprintRegistry.clear
Clear(reg) ==
    [reg EXCEPT !.blueprints = EmptyMap, !.blueprint_locations = EmptyMap,
                !.discovered = FALSE]

(***************************************************************************)
(* The state machine: calls on the process-wide registry, interleaved with *)
(* changes to the template files and to the environment.                   *)
(***************************************************************************)
MaxChanges == 1

Nope == <<"n", "o", "p", "e">>

\* the names asked for
QueryNames == {BlueprintNameOf[ETLJob], BlueprintNameOf[NewBp], Nope}

\* the record of a call: what was asked, what the registry held when the call
\* was made (discovered flag, cached listing, registered names) and the outcome
NoCall ==
    [op |-> "none", name |-> <<>>, force |-> FALSE, was_discovered |-> FALSE,
     had_cache |-> None, had_names |-> {}, out |-> NoOut]

Call(o, n, f, out) ==
    [op |-> o, name |-> n, force |-> f, was_discovered |-> registry.discovered,
     had_cache |-> registry.cached_list, had_names |-> DOMAIN registry.blueprints,
     out |-> out]

envVars == <<fs, envPath, cwd, changes>>
nameVars == <<ident, key, pc, arg, ret>>

Init ==
    /\ fs \in FileSystems
    /\ envPath \in EnvChoices
    /\ cwd = WorkDir
    /\ registry = NewRegistry
    /\ last = NoCall
    /\ changes = 0
    /\ ident = <<>>
    /\ key = <<>>
    /\ pc = "idle"
    /\ arg = <<>>
    /\ ret = <<>>

\* registry.discover_blueprints(force)
CallDiscoverBlueprints ==
    \E force \in BOOLEAN :
      \E ord \in OrdersIf(force \/ ~registry.discovered) :
        /\ registry' = DiscoverBlueprints(registry, force, fs,
                                          GetTemplateDirs(fs, envPath), ord)
        /\ last' = Call("discover_blueprints", <<>>, force, NoOut)
        /\ UNCHANGED <<envVars, nameVars>>

\* registry.get_blueprint(name)
CallGetBlueprint ==
    \E name \in QueryNames, ord \in OrdersIf(~registry.discovered) :
        \E r \in {GetBlueprint(registry, name, fs, GetTemplateDirs(fs, envPath), ord)} :
            /\ registry' = r.reg
            /\ last' = Call("get_blueprint", name, FALSE, r.out)
            /\ UNCHANGED <<envVars, nameVars>>

\* registry.list_blueprints()
CallListBlueprints ==
    \E ord \in OrdersIf(~registry.discovered),
       ord2 \in OrdersIf(~registry.discovered \/ registry.cached_list = None) :
        \E r \in {ListBlueprints(registry, fs, GetTemplateDirs(fs, envPath), ord, ord2)} :
            /\ registry' = r.reg
            /\ last' = Call("list_blueprints", <<>>, FALSE, r.out)
            /\ UNCHANGED <<envVars, nameVars>>

\* registry.get_blueprint_info(name)
CallGetBlueprintInfo ==
    \E name \in QueryNames, ord \in OrdersIf(~registry.discovered) :
        \E r \in {GetBlueprintInfo(registry, name, fs, GetTemplateDirs(fs, envPath), ord)} :
            /\ registry' = r.reg
            /\ last' = Call("get_blueprint_info", name, FALSE, r.out)
            /\ UNCHANGED <<envVars, nameVars>>

\* registry.clear()
CallClear ==
    /\ registry' = Clear(registry)
    /\ last' = Call("clear", <<>>, FALSE, NoOut)
    /\ UNCHANGED <<envVars, nameVars>>

\* a template file is added, removed or rewritten
WriteFile ==
    \E f \in AllFiles, c \in DOMAIN SourceOf :
        /\ changes < MaxChanges
        /\ c # fs[f]
        /\ c \in Contents(f) \cup {"absent"}
        /\ ~IsPrivate(f[2])
        /\ fs' = [fs EXCEPT ![f] = c]
        /\ changes' = changes + 1
        /\ last' = NoCall
        /\ UNCHANGED <<envPath, cwd, registry, nameVars>>

\* BLUEPRINT_TEMPLATE_PATH is set to another value
SetEnv ==
    \E e \in EnvChoices :
        /\ changes < MaxChanges
        /\ e # envPath
        /\ envPath' = e
        /\ changes' = changes + 1
        /\ last' = NoCall
        /\ UNCHANGED <<fs, cwd, registry, nameVars>>

Next ==
    \/ CallDiscoverBlueprints
    \/ CallGetBlueprint
    \/ CallListBlueprints
    \/ CallGetBlueprintInfo
    \/ CallClear
    \/ WriteFile
    \/ SetEnv

Spec == Init /\ [][Next]_vars

(***************************************************************************)
(* Name derivation on its own: an identifier is given, its key derived.    *)
(***************************************************************************)
InitName ==
    /\ fs \in {f \in FileSystems : \A x \in AllFiles : IsPrivate(x[2]) \/ f[x] = "absent"}
    /\ envPath = <<DirA>>
    /\ cwd = WorkDir
    /\ registry = NewRegistry
    /\ last = NoCall
    /\ changes = 0
    /\ ident \in Idents
    /\ key = <<>>
    /\ pc = "input"
    /\ arg = <<>>
    /\ ret = <<>>

\* self._get_blueprint_name(class_name)
DeriveName ==
    /\ pc = "input"
    /\ key' = GetBlueprintName(ident)
    /\ pc' = "done"
    /\ UNCHANGED <<envVars, registry, last, ident, arg, ret>>

NextName == DeriveName

SpecName == InitName /\ [][NextName]_vars

(***************************************************************************)
(* blueprint.loaders.load_blueprint on its own: the search directories it  *)
(* makes the registry scan, with and without an explicit template_dir.     *)
(* The default directory and the local directory can hold a file here.     *)
(***************************************************************************)
WorkLocal == WorkDir \o LocalPath

DirFiles == AllFiles \cup {<<DefaultPath, "f.py">>, <<WorkLocal, "f.py">>}

DirFileSystems ==
    {f \in [DirFiles -> DOMAIN SourceOf] :
        /\ f[<<DirA, "f.py">>] \in {"ETLJob", "NewBp", "absent"}
        /\ f[<<DirA, "g.py">>] = "absent"
        /\ f[<<DirB, "f.py">>] \in {"ETLJob", "absent"}
        /\ f[<<DirB, "_p.py">>] = "NewBp"
        /\ f[<<DefaultPath, "f.py">>] \in {"ETLJob", "absent"}
        /\ f[<<WorkLocal, "f.py">>] \in {"EtlJob", "absent"}}

\* BLUEPRINT_TEMPLATE_PATH: unset, or entries of which some are empty, name
\* the default or the local directory, or name one directory twice
DirEnvChoices ==
    {<<>>, <<DirA>>, <<DirA, DirB>>, <<DirB, <<>>, DirA>>, <<DefaultPath, DirA>>,
     <<LocalPath, DirB>>, <<DirB, DirB>>}

\* the template_dir argument: None or a directory
TemplateDirArgs == {None, Some(DirA), Some(DirB)}

\* a slip: the explicit directory is scanned by the process-wide registry
LoadBlueprint_GlobalRegistry(reg, blueprint_name, template_dir, fsys, env, ord) ==
    LET dirs == IF template_dir # None THEN <<template_dir[1]>>
                ELSE GetTemplateDirs(fsys, env)
        reg1 == DiscoverBlueprints(reg, template_dir # None, fsys, dirs, ord)
        got == GetBlueprint(reg1, blueprint_name, fsys, dirs, ord)
    IN  [reg |-> got.reg, used |-> got.reg, out |-> got.out]

\* what a loader hands back when it used a temporary BlueprintRegistry(): the
\* process-wide registry is as it was
OfTemporary(reg, got) == [reg |-> reg, used |-> got.reg, out |-> got.out]

\* what a loader hands back when it used the process-wide registry
OfGlobal(got) == [reg |-> got.reg, used |-> got.reg, out |-> got.out]

\* loaders.load_blueprint(blueprint_name, template_dir): the process-wide
\* registry afterwards, the registry that answered, and the outcome
LoadBlueprint(reg, blueprint_name, template_dir, fsys, env, ord) ==
    IF template_dir # None
    THEN OfTemporary(reg,
            GetBlueprint(DiscoverBlueprints(NewRegistry, TRUE, fsys,
                                            <<template_dir[1]>>, ord),
                         blueprint_name, fsys, <<template_dir[1]>>, ord))
    ELSE OfGlobal(
            GetBlueprint(DiscoverBlueprints(reg, FALSE, fsys,
                                            GetTemplateDirs(fsys, env), ord),
                         blueprint_name, fsys, GetTemplateDirs(fsys, env), ord))

InitDirs ==
    /\ fs \in DirFileSystems
    /\ envPath \in DirEnvChoices
    /\ cwd \in {WorkDir, AirflowHome}
    /\ registry = NewRegistry
    /\ last = NoCall
    /\ changes = 0
    /\ ident = <<>>
    /\ key = <<>>
    /\ pc = "input"
    /\ arg \in [blueprint_name : {BlueprintNameOf[ETLJob], BlueprintNameOf[NewBp]},
                template_dir : TemplateDirArgs]
    /\ ret = <<>>

\* load_blueprint(arg.blueprint_name, arg.template_dir)
CallLoadBlueprint ==
    \E ord \in GlobOrders :
        \E r \in {LoadBlueprint(registry, arg.blueprint_name, arg.template_dir,
                                fs, envPath, ord)} :
            /\ pc = "input"
            /\ registry' = r.reg
            /\ ret' = [before |-> registry, dirs |-> r.used.template_dirs,
                       used |-> r.used, out |-> r.out]
            /\ pc' = "done"
            /\ UNCHANGED <<envVars, last, ident, key, arg>>

NextDirs == CallLoadBlueprint

SpecDirs == InitDirs /\ [][NextDirs]_vars

(***************************************************************************)
(* blueprint.core: the build method a Blueprint subclass gets from its     *)
(* config schema.  A schema is the sequence of its fields (model_fields is *)
(* ordered); a field is required, has a default value, or has a default    *)
(* factory, which is called to get the default and may raise.  Keyword     *)
(* arguments are a map from names to values; a value is "ok" or "bad"      *)
(* (one the schema's validation rejects).                                  *)
(***************************************************************************)
MaxFields == 2

FieldNames == {"job_id", "retries", "cls"}
FieldKinds == {"required", "default", "factory", "factory_raises"}

Schemas ==
    {sch \in SeqsUpTo([name : FieldNames, kind : FieldKinds], MaxFields) :
        \A i, j \in DOMAIN sch : i # j => sch[i].name # sch[j].name}

\* the keyword arguments of a call: the call syntax binds a keyword cls to
\* the first parameter, so it never is one of **kwargs
KwargNames == {"job_id", "retries", "extra"}
Kwargs ==
    UNION {[names -> {"ok", "bad"}] : names \in SUBSET KwargNames}

\* inspect.Parameter.empty
Empty == "inspect.Parameter.empty"

\* field_info.get_default(call_default_factory=True)
GetDefault(field) ==
    CASE field.kind = "default" -> [raised |-> "none", value |-> "the default"]
      [] field.kind = "factory" -> [raised |-> "none", value |-> "made by the factory"]
      [] field.kind = "factory_raises" -> [raised |-> "Exception", value |-> Empty]
      [] OTHER -> [raised |-> "none", value |-> Empty]

\* the loop over config_type.model_fields.items(): params so far, or the
\* exception that left the loop
RECURSIVE FieldParams(_, _, _)
FieldParams(schema, i, params) ==
    IF i > Len(schema) THEN [raised |-> "none", params |-> params]
    ELSE LET field == schema[i]
             default == IF field.kind = "required"
                        THEN [raised |-> "none", value |-> Empty]
                        ELSE GetDefault(field)
         IN  IF default.raised # "none"
             THEN [raised |-> default.raised, params |-> params]
             ELSE FieldParams(schema, i + 1,
                    Append(params, [name |-> field.name, kind |-> "KEYWORD_ONLY",
                                    default |-> default.value]))

\* inspect.Signature(params): parameter names must be pairwise distinct
Signature(params) ==
    IF \E i, j \in DOMAIN params : i # j /\ params[i].name = params[j].name
    THEN [raised |-> "ValueError", params |-> <<>>]
    ELSE [raised |-> "none", params |-> params]

\* Blueprint._generate_build_method(config_type)
GenerateBuildMethod(schema) ==
    LET looped == FieldParams(schema, 1,
                    <<[name |-> "cls", kind |-> "POSITIONAL_OR_KEYWORD",
                       default |-> Empty]>>)
    IN  IF looped.raised # "none" THEN looped ELSE Signature(looped.params)

\* Blueprint.__init_subclass__ for "class X(Blueprint[schema])": the class
\* created, or the exception the class statement raises
InitSubclass(schema) ==
    LET made == GenerateBuildMethod(schema)
    IN  IF made.raised # "none"
        THEN [raised |-> made.raised, class |-> None]
        ELSE [raised |-> "none",
              class |-> Some([config_type |-> schema, signature |-> made.params])]

\* cls._config_type(**kwargs): the schema's own validation; unknown keyword
\* arguments are ignored, a missing optional field takes its default
ValidateConfig(schema, kwargs) ==
    IF \E i \in DOMAIN schema :
            \/ schema[i].name \in DOMAIN kwargs /\ kwargs[schema[i].name] = "bad"
            \/ schema[i].name \notin DOMAIN kwargs /\ schema[i].kind = "required"
    THEN [raised |-> "ValidationError", config |-> None]
    ELSE [raised |-> "none",
          config |-> Some([n \in {schema[i].name : i \in DOMAIN schema} |->
                            IF n \in DOMAIN kwargs THEN kwargs[n]
                            ELSE LET i == CHOOSE k \in DOMAIN schema : schema[k].name = n
                                 IN  GetDefault(schema[i]).value])]

\* instance.render(config) of the blueprint class: the DAG it makes
Render(class, config) == [dag |-> "DAG", of |-> class.config_type, config |-> config]

\* a slip: render is called with the keyword arguments, before validation
Build_RenderFirst(class, kwargs) ==
    LET validated == ValidateConfig(class.config_type, kwargs)
    IN  [events |-> <<"render", "validate", "instantiate">>,
         raised |-> validated.raised,
         value |-> IF validated.raised # "none" THEN None
                   ELSE Some(Render(class, kwargs))]

\* the synthesized build(cls, **kwargs): the calls it makes, in order, and
\* its outcome
Build(class, kwargs) ==
    LET validated == ValidateConfig(class.config_type, kwargs)
    IN  IF validated.raised # "none"
        THEN [events |-> <<"validate">>, raised |-> validated.raised, value |-> None]
        ELSE [events |-> <<"validate", "instantiate", "render">>,
              raised |-> "none",
              value |-> Some(Render(class, validated.config[1]))]

InitBuild ==
    /\ fs \in {f \in FileSystems : \A x \in AllFiles : IsPrivate(x[2]) \/ f[x] = "absent"}
    /\ envPath = <<DirA>>
    /\ cwd = WorkDir
    /\ registry = NewRegistry
    /\ last = NoCall
    /\ changes = 0
    /\ ident = <<>>
    /\ key = <<>>
    /\ pc = "input"
    /\ arg \in [schema : Schemas, kwargs : Kwargs]
    /\ ret = <<>>

\* the class statement "class X(Blueprint[schema])" is executed
DefineClass ==
    /\ pc = "input"
    /\ ret' = [defined |-> InitSubclass(arg.schema), built |-> None]
    /\ pc' = IF InitSubclass(arg.schema).raised = "none" THEN "defined" ELSE "failed"
    /\ UNCHANGED <<envVars, registry, last, ident, key, arg>>

\* X.build(**kwargs)
CallBuild ==
    /\ pc = "defined"
    /\ ret' = [ret EXCEPT !.built = Some(Build(ret.defined.class[1], arg.kwargs))]
    /\ pc' = "done"
    /\ UNCHANGED <<envVars, registry, last, ident, key, arg>>

NextBuild == DefineClass \/ CallBuild

SpecBuild == InitBuild /\ [][NextBuild]_vars

(***************************************************************************)
(* Code generation: task dependencies.  A graph (dag) has its tasks in     *)
(* dag.tasks order, each with an operator class, and an edge set; the      *)
(* upstream and downstream id sets of a task are read off the edge set.    *)
(* A generated line is the sequence of its tokens.  Sets of task ids are   *)
(* iterated in an order the program does not fix: iter is that order.      *)
(***************************************************************************)
MaxTasks == 3

TaskIds == {"extract", "transform", "load"}
TaskClasses == {"BashOperator", "EmptyOperator"}

\* the one-to-one sequences over S of length n
Arrangements(S, n) == {q \in [1..n -> S] : \A i, j \in 1..n : i # j => q[i] # q[j]}

\* the transitive closure of an edge set over three or fewer nodes
Reach(edges) ==
    LET step(r) == r \cup {<<x[1][1], x[2][2]>> : x \in {y \in r \X r : y[1][2] = y[2][1]}}
    IN  step(step(edges))

Acyclic(edges) == \A e \in Reach(edges) : e[1] # e[2]

\* the edge sets over the tasks q that make no cycle
AcyclicEdges(q) ==
    {x \in SUBSET ({q[i] : i \in DOMAIN q} \X {q[i] : i \in DOMAIN q}) : Acyclic(x)}

ClassMaps ==
    {[t \in TaskIds |-> IF t \in bash THEN "BashOperator" ELSE "EmptyOperator"]
        : bash \in {{}, {"extract"}}}

Dags ==
    UNION {UNION {{[tasks |-> q, class |-> c, edges |-> e] : c \in ClassMaps, e \in AcyclicEdges(q)}
                  : q \in Arrangements(TaskIds, n)}
           : n \in 0..MaxTasks}

\* the orders in which a set of task ids is iterated
IterOrders == Arrangements(TaskIds, Cardinality(TaskIds))

\* task.upstream_task_ids and task.downstream_task_ids, as iterated
InOrder(ids, iter) == SelectSeq(iter, LAMBDA t : t \in ids)
UpstreamTaskIds(dag, t, iter) == InOrder({e[1] : e \in {x \in dag.edges : x[2] = t}}, iter)
DownstreamTaskIds(dag, t, iter) == InOrder({e[2] : e \in {x \in dag.edges : x[1] = t}}, iter)

\* " >> ".join(ids), as tokens
RECURSIVE JoinShift(_)
JoinShift(ids) ==
    IF Len(ids) = 0 THEN <<>>
    ELSE IF Len(ids) = 1 THEN <<ids[1]>>
    ELSE <<ids[1], ">>">> \o JoinShift(Tail(ids))

\* Blueprint._generate_dependencies, first loop: one line per task that has
\* upstream tasks
RECURSIVE UpstreamLines(_, _, _)
UpstreamLines(dag, i, iter) ==
    IF i > Len(dag.tasks) THEN <<>>
    ELSE LET task_id == dag.tasks[i]
             upstream_tasks == UpstreamTaskIds(dag, task_id, iter)
             line == IF Len(upstream_tasks) = 0 THEN <<>>
                     ELSE IF Len(upstream_tasks) = 1
                     THEN <<<<upstream_tasks[1], ">>", task_id>>>>
                     ELSE <<(<<"[">> \o JoinShift(upstream_tasks) \o <<"]", ">>", task_id>>)>>
         IN  line \o UpstreamLines(dag, i + 1, iter)

\* the loop over the downstream ids of every task: a line "task >> downstream"
\* unless that line was already added by this loop
RECURSIVE DownstreamLines(_, _, _, _, _)
DownstreamLines(dag, i, k, iter, processed) ==
    IF i > Len(dag.tasks) THEN <<>>
    ELSE LET task_id == dag.tasks[i]
             downstream_ids == DownstreamTaskIds(dag, task_id, iter)
         IN  IF k > Len(downstream_ids)
             THEN DownstreamLines(dag, i + 1, 1, iter, processed)
             ELSE LET dep_str == <<task_id, ">>", downstream_ids[k]>>
                  IN  IF dep_str \in processed
                      THEN DownstreamLines(dag, i, k + 1, iter, processed)
                      ELSE <<dep_str>>
                           \o DownstreamLines(dag, i, k + 1, iter, processed \cup {dep_str})

\* Blueprint._generate_dependencies
GenerateDependencies(dag, iter) ==
    UpstreamLines(dag, 1, iter) \o DownstreamLines(dag, 1, 1, iter, {})

\* Blueprint._generate_task_definitions: "task_id = Class(task_id=..., dag=dag)"
GenerateTaskDefinitions(dag) ==
    [i \in 1..Len(dag.tasks) |->
        <<dag.tasks[i], "=", dag.class[dag.tasks[i]], "(", "task_id", "=", dag.tasks[i], ")">>]

\* Blueprint._generate_dag_code: the lines of the task section, then those
\* of the dependency section
GenerateDagCode(dag, iter) ==
    GenerateTaskDefinitions(dag) \o GenerateDependencies(dag, iter)

\* a slip: the downstream ids of a task are put in one bracketed list
GenerateDependenciesFromSerialized_Bracketed(dag, iter) ==
    LET RECURSIVE lines(_)
        lines(i) ==
            IF i > Len(dag.tasks) THEN <<>>
            ELSE LET downstream_ids == DownstreamTaskIds(dag, dag.tasks[i], iter)
                 IN  (IF Len(downstream_ids) = 0 THEN <<>>
                      ELSE IF Len(downstream_ids) = 1
                      THEN <<<<dag.tasks[i], ">>", downstream_ids[1]>>>>
                      ELSE <<(<<dag.tasks[i], ">>", "[">> \o downstream_ids \o <<"]">>)>>)
                     \o lines(i + 1)
    IN  lines(1)

\* DAGWriter._generate_dependencies_from_serialized
GenerateDependenciesFromSerialized(dag, iter) ==
    DownstreamLines(dag, 1, 1, iter, {})

(***************************************************************************)
(* What a generated line does when the file is loaded: "a >> b" makes b    *)
(* downstream of a and has the value b; "[x] >> t" makes t downstream of   *)
(* every element of the list.                                              *)
(***************************************************************************)
\* the edges "t1 >> t2 >> ... >> tn" sets, tokens at odd positions being ids
ChainEdges(tokens) ==
    {<<tokens[k], tokens[k + 2]>> : k \in {j \in 1..(Len(tokens) - 2) : j % 2 = 1}}

LineEdges(line) ==
    IF line[1] = "["
    THEN LET close == CHOOSE k \in DOMAIN line : line[k] = "]"
             inner == SubSeq(line, 2, close - 1)
         IN  ChainEdges(inner) \cup {<<inner[Len(inner)], line[close + 2]>>}
    ELSE IF Len(line) >= 3 /\ line[3] = "["
    THEN {<<line[1], line[k]>> : k \in 4..(Len(line) - 1)}
    ELSE ChainEdges(line)

LinesEdges(lines) == UNION {LineEdges(lines[i]) : i \in DOMAIN lines}

InitDeps ==
    /\ fs \in {f \in FileSystems : \A x \in AllFiles : IsPrivate(x[2]) \/ f[x] = "absent"}
    /\ envPath = <<DirA>>
    /\ cwd = WorkDir
    /\ registry = NewRegistry
    /\ last = NoCall
    /\ changes = 0
    /\ ident = <<>>
    /\ key = <<>>
    /\ pc = "input"
    /\ arg \in Dags
    /\ ret = <<>>

\* Blueprint._generate_dag_code(...) for a blueprint that renders the dag
CallGenerateDagCode ==
    \E iter \in IterOrders :
        /\ pc = "input"
        /\ ret' = [tasks |-> GenerateTaskDefinitions(arg),
                   dependencies |-> GenerateDependencies(arg, iter),
                   code |-> GenerateDagCode(arg, iter)]
        /\ pc' = "core"
        /\ UNCHANGED <<envVars, registry, last, ident, key, arg>>

\* DAGWriter._generate_dependencies_from_serialized(dag_data)
CallGenerateDependenciesFromSerialized ==
    \E iter \in IterOrders :
        /\ pc = "input"
        /\ ret' = [iter |-> iter,
                   dependencies |-> GenerateDependenciesFromSerialized(arg, iter)]
        /\ pc' = "writer"
        /\ UNCHANGED <<envVars, registry, last, ident, key, arg>>

NextDeps == CallGenerateDagCode \/ CallGenerateDependenciesFromSerialized

SpecDeps == InitDeps /\ [][NextDeps]_vars

(***************************************************************************)
(* Code generation: values.  The operations below are studied on their own;*)
(* the registry takes no part in them.                                     *)
(***************************************************************************)
RegistryIdle ==
    /\ fs \in {f \in FileSystems : \A x \in AllFiles : IsPrivate(x[2]) \/ f[x] = "absent"}
    /\ envPath = <<DirA>>
    /\ cwd = WorkDir
    /\ registry = NewRegistry
    /\ last = NoCall
    /\ changes = 0
    /\ ident = <<>>
    /\ key = <<>>

registryVars == <<envVars, registry, last, ident, key>>

(***************************************************************************)
(* DAGWriter._format_value for a timedelta of total_seconds whole seconds: *)
(* the call it emits, as the keyword and the number written.               *)
(***************************************************************************)
MaxSeconds == 7300

\* a slip: minutes are tried before hours
FormatTimedelta_MinutesFirst(total_seconds) ==
    IF total_seconds % 60 = 0
    THEN [call |-> "timedelta", unit |-> "minutes", number |-> total_seconds \div 60]
    ELSE [call |-> "timedelta", unit |-> "seconds", number |-> total_seconds]

FormatTimedelta(total_seconds) ==
    IF total_seconds % 3600 = 0
    THEN [call |-> "timedelta", unit |-> "hours", number |-> total_seconds \div 3600]
    ELSE IF total_seconds % 60 = 0
    THEN [call |-> "timedelta", unit |-> "minutes", number |-> total_seconds \div 60]
    ELSE [call |-> "timedelta", unit |-> "seconds", number |-> total_seconds]

\* datetime.timedelta(hours=n), (minutes=n), (seconds=n) in seconds
TimedeltaSeconds(code) ==
    CASE code.unit = "hours" -> code.number * 3600
      [] code.unit = "minutes" -> code.number * 60
      [] code.unit = "seconds" -> code.number

InitDuration ==
    /\ RegistryIdle
    /\ pc = "input"
    /\ arg \in (0 - MaxSeconds)..MaxSeconds
    /\ ret = <<>>

\* writer._format_value(timedelta(seconds=arg))
CallFormatValue ==
    /\ pc = "input"
    /\ ret' = FormatTimedelta(arg)
    /\ pc' = "done"
    /\ UNCHANGED <<registryVars, arg>>

NextDuration == CallFormatValue

SpecDuration == InitDuration /\ [][NextDuration]_vars

(***************************************************************************)
(* DAGWriter._format_serialized_value for a string value.  A string is the *)
(* sequence of its characters; the literal written is the sequence of the  *)
(* characters of the source text.                                          *)
(***************************************************************************)
MaxStrLen == 4

DQ == "\""
SQ == "'"
BS == "\\"

StrAlphabet == {"a", DQ, SQ, BS}
Strings == SeqsUpTo(StrAlphabet, MaxStrLen)

\* the parameter the value belongs to
ParamKeys == {"bash_command", "op_args"}

Contains(str, c) == \E i \in DOMAIN str : str[i] = c

\* value.replace('"', '\\"')
RECURSIVE EscapeDoubleQuotes(_)
EscapeDoubleQuotes(value) ==
    IF Len(value) = 0 THEN <<>>
    ELSE (IF Head(value) = DQ THEN <<BS, DQ>> ELSE <<Head(value)>>)
         \o EscapeDoubleQuotes(Tail(value))

\* a slip: double quotes whatever the value contains
FormatSerializedValue_AlwaysDouble(value, param_key) ==
    IF param_key \in {"op_args", "op_kwargs"} /\ Len(value) = 0 THEN None
    ELSE Some(<<DQ>> \o EscapeDoubleQuotes(value) \o <<DQ>>)

\* DAGWriter._format_serialized_value(value, key, task_type), value a str
FormatSerializedValue(value, param_key) ==
    IF param_key \in {"op_args", "op_kwargs"} /\ Len(value) = 0 THEN None
    ELSE IF Contains(value, DQ) /\ ~Contains(value, SQ)
    THEN Some(<<SQ>> \o value \o <<SQ>>)
    ELSE Some(<<DQ>> \o EscapeDoubleQuotes(value) \o <<DQ>>)

InitQuote ==
    /\ RegistryIdle
    /\ pc = "input"
    /\ arg \in [value : Strings, key : ParamKeys]
    /\ ret = <<>>

\* writer._format_serialized_value(arg.value, arg.key, task_type)
CallFormatSerializedValue ==
    /\ pc = "input"
    /\ ret' = FormatSerializedValue(arg.value, arg.key)
    /\ pc' = "done"
    /\ UNCHANGED <<registryVars, arg>>

NextQuote == CallFormatSerializedValue

SpecQuote == InitQuote /\ [][NextQuote]_vars

(***************************************************************************)
(* Code generation: the graph header "dag = DAG(...)".  A header is the    *)
(* sequence of its parameters, each with its name and the text written for *)
(* its value.  A graph attribute that is not set is None.                  *)
(***************************************************************************)
StrValue(text) == [type |-> "str", repr |-> text]
ObjValue(text) == [type |-> "object", repr |-> text]

\* a schedule: a preset or cron string, or an object such as a timedelta
ScheduleValues ==
    {None, Some(StrValue("@daily")), Some(StrValue("@hourly")),
     Some(ObjValue("datetime.timedelta(days=1)"))}

\* a start date: naive, or aware with an offset from UTC
StartDates ==
    {None,
     Some([year |-> "2024", month |-> "3", day |-> "15", time |-> "00:00", tzinfo |-> None]),
     Some([year |-> "2024", month |-> "3", day |-> "15", time |-> "06:30", tzinfo |-> None]),
     Some([year |-> "2024", month |-> "3", day |-> "15", time |-> "00:00",
           tzinfo |-> Some("+00:00")]),
     Some([year |-> "2024", month |-> "3", day |-> "15", time |-> "06:30",
           tzinfo |-> Some("+05:30")])}

HeaderDags ==
    [dag_id : {"etl"},
     default_args : {<<>>, <<[key |-> "retry_delay", seconds |-> 300]>>},
     description : {None, Some("nightly load")},
     schedule_interval : ScheduleValues,
     schedule : ScheduleValues,
     start_date : StartDates,
     catchup : BOOLEAN,
     tags : {<<>>, <<"etl", "daily">>}]

Param(name, text) == [name |-> name, text |-> text]

\* f'"{value}"' for a str, repr(value) otherwise
ValueText(v) == IF v.type = "str" THEN <<DQ, v.repr, DQ>> ELSE <<v.repr>>

\* the default_args parameter, when the graph has default arguments
DefaultArgsParam(dag) ==
    IF dag.default_args = <<>> THEN <<>>
    ELSE <<Param("default_args",
                 [i \in DOMAIN dag.default_args |->
                    [key |-> dag.default_args[i].key,
                     code |-> FormatTimedelta(dag.default_args[i].seconds)]])>>

DescriptionParam(dag) ==
    IF dag.description = None THEN <<>>
    ELSE <<Param("description", <<DQ, dag.description[1], DQ>>)>>

\* DAGWriter._format_datetime and the same lines of core.py
FormatDatetime(dt) ==
    IF dt.tzinfo # None
    THEN <<"datetime", "(", dt.year, dt.month, dt.day, "tzinfo", "=", "timezone.utc", ")">>
    ELSE <<"datetime", "(", dt.year, dt.month, dt.day, ")">>

StartDateParam(dag) ==
    IF dag.start_date = None THEN <<>>
    ELSE <<Param("start_date", FormatDatetime(dag.start_date[1]))>>

CatchupParam(dag) == <<Param("catchup", <<IF dag.catchup THEN "True" ELSE "False">>)>>

TagsParam(dag) == IF dag.tags = <<>> THEN <<>> ELSE <<Param("tags", dag.tags)>>

\* Blueprint._generate_dag_definition, the schedule lines
ScheduleParam(dag) ==
    IF dag.schedule_interval # None
    THEN <<Param("schedule", ValueText(dag.schedule_interval[1]))>>
    ELSE IF dag.schedule # None
    THEN <<Param("schedule", ValueText(dag.schedule[1]))>>
    ELSE <<>>

\* DAGWriter._generate_dag_definition_from_serialized, the schedule lines
ScheduleParamFromSerialized(dag_data) ==
    IF dag_data.schedule_interval # None
    THEN <<Param("schedule", ValueText(dag_data.schedule_interval[1]))>>
    ELSE <<>>

\* Blueprint._generate_dag_definition
GenerateDagDefinition(dag) ==
    <<Param("dag_id", <<DQ, dag.dag_id, DQ>>)>>
    \o DefaultArgsParam(dag) \o DescriptionParam(dag) \o ScheduleParam(dag)
    \o StartDateParam(dag) \o CatchupParam(dag) \o TagsParam(dag)

\* DAGWriter._generate_dag_definition_from_serialized
GenerateDagDefinitionFromSerialized(dag_data) ==
    <<Param("dag_id", <<DQ, dag_data.dag_id, DQ>>)>>
    \o DefaultArgsParam(dag_data) \o DescriptionParam(dag_data)
    \o ScheduleParamFromSerialized(dag_data)
    \o StartDateParam(dag_data) \o CatchupParam(dag_data) \o TagsParam(dag_data)

InitHeader ==
    /\ RegistryIdle
    /\ pc = "input"
    /\ arg \in HeaderDags
    /\ ret = <<>>

\* self._generate_dag_definition(dag)
CallGenerateDagDefinition ==
    /\ pc = "input"
    /\ ret' = GenerateDagDefinition(arg)
    /\ pc' = "core"
    /\ UNCHANGED <<registryVars, arg>>

\* writer._generate_dag_definition_from_serialized(dag_data)
CallGenerateDagDefinitionFromSerialized ==
    /\ pc = "input"
    /\ ret' = GenerateDagDefinitionFromSerialized(arg)
    /\ pc' = "writer"
    /\ UNCHANGED <<registryVars, arg>>

NextHeader == CallGenerateDagDefinition \/ CallGenerateDagDefinitionFromSerialized

SpecHeader == InitHeader /\ [][NextHeader]_vars

(***************************************************************************)
(* Code generation: task definitions and the function a PythonOperator     *)
(* calls.  A callable is described by what the generator asks of it: its   *)
(* __name__ (None when it has none, as a functools.partial or an instance  *)
(* with __call__), whether it has __code__, and what                       *)
(* inspect.getsourcelines does with it.                                    *)
(***************************************************************************)
MaxOperators == 3

OperatorIds == <<"first", "second", "third", "fourth">>

Callables ==
    {[name |-> Some("work"), has_code |-> TRUE, source |-> "ok"],
     [name |-> Some("work"), has_code |-> TRUE, source |-> "OSError"],
     [name |-> Some("len"), has_code |-> FALSE, source |-> "TypeError"],
     [name |-> None, has_code |-> FALSE, source |-> "TypeError"]}

\* the tasks a graph can hold: a BashOperator, or a PythonOperator with its callable
Operators ==
    {[class |-> "BashOperator", python_callable |-> None]}
    \cup {[class |-> "PythonOperator", python_callable |-> Some(f)] : f \in Callables}

OperatorDags ==
    UNION {[1..n -> Operators] : n \in 0..MaxOperators}

\* the statements written: a function definition, or "var = Class(...)"
FunctionDef(name, body) == [stmt |-> "def", name |-> name, body |-> body]
TaskDef(task_id, class, callable_name) ==
    [stmt |-> "task", name |-> task_id, class |-> class, python_callable |-> callable_name]

\* _extract_function_definition: the source of func, or the placeholder
\* "def name(**_): pass" when getsourcelines raises OSError or TypeError
ExtractFunctionDefinition(func) ==
    IF func.source = "ok"
    THEN [raised |-> "none", code |-> <<FunctionDef(func.name[1], "source")>>]
    ELSE IF func.name = None
    THEN [raised |-> "AttributeError", code |-> <<>>]
    ELSE [raised |-> "none", code |-> <<FunctionDef(func.name[1], "placeholder")>>]

\* Blueprint._generate_single_task_definition
GenerateSingleTaskDefinition(task_id, task) ==
    IF task.python_callable = None
    THEN [raised |-> "none", code |-> <<TaskDef(task_id, task.class, None)>>]
    ELSE LET func == task.python_callable[1]
         IN  IF func.name = None
             THEN [raised |-> "AttributeError", code |-> <<>>]
             ELSE IF func.has_code
             THEN LET func_def == ExtractFunctionDefinition(func)
                  IN  [raised |-> func_def.raised,
                       code |-> func_def.code
                                \o <<TaskDef(task_id, task.class, func.name)>>]
             ELSE [raised |-> "none", code |-> <<TaskDef(task_id, task.class, func.name)>>]

\* DAGWriter._generate_single_task_from_serialized with the original task
GenerateSingleTaskFromSerialized(task_id, task) ==
    IF task.python_callable = None
    THEN [raised |-> "none", code |-> <<TaskDef(task_id, task.class, None)>>]
    ELSE LET func == task.python_callable[1]
         IN  IF func.name = None
             THEN [raised |-> "AttributeError", code |-> <<>>]
             ELSE LET func_def == ExtractFunctionDefinition(func)
                  IN  [raised |-> func_def.raised,
                       code |-> func_def.code
                                \o <<TaskDef(task_id, task.class, func.name)>>]

\* the loop over the tasks: the statements of all tasks, or the first
\* exception a task raises; by is the generator ("core" or "writer")
RECURSIVE TaskSection(_, _, _)
TaskSection(tasks, i, by) ==
    IF i > Len(tasks) THEN [raised |-> "none", code |-> <<>>]
    ELSE LET one == IF by = "core"
                    THEN GenerateSingleTaskDefinition(OperatorIds[i], tasks[i])
                    ELSE GenerateSingleTaskFromSerialized(OperatorIds[i], tasks[i])
             rest == TaskSection(tasks, i + 1, by)
         IN  IF one.raised # "none" THEN [raised |-> one.raised, code |-> <<>>]
             ELSE IF rest.raised # "none" THEN rest
             ELSE [raised |-> "none", code |-> one.code \o rest.code]

\* Blueprint._generate_task_definitions for a graph of such tasks
GenerateOperatorDefinitions(tasks) == TaskSection(tasks, 1, "core")

\* DAGWriter._generate_task_definitions_from_serialized
GenerateTaskDefinitionsFromSerialized(tasks) == TaskSection(tasks, 1, "writer")

\* the graph of the tasks, without edges
EdgelessDag(tasks) ==
    [tasks |-> SubSeq(OperatorIds, 1, Len(tasks)), edges |-> {}]

InitTasks ==
    /\ RegistryIdle
    /\ pc = "input"
    /\ arg \in OperatorDags
    /\ ret = <<>>

\* self._generate_task_definitions(dag) and self._generate_dependencies(dag)
\* for a graph without edges
CallGenerateTaskDefinitions ==
    /\ pc = "input"
    /\ ret' = [tasks |-> GenerateOperatorDefinitions(arg),
               dependencies |-> GenerateDependencies(EdgelessDag(arg), OperatorIds)]
    /\ pc' = "core"
    /\ UNCHANGED <<registryVars, arg>>

\* writer._generate_task_definitions_from_serialized(dag, dag_data) and
\* writer._generate_dependencies_from_serialized(dag_data)
CallGenerateTaskDefinitionsFromSerialized ==
    /\ pc = "input"
    /\ ret' = [tasks |-> GenerateTaskDefinitionsFromSerialized(arg),
               dependencies |->
                    GenerateDependenciesFromSerialized(EdgelessDag(arg), OperatorIds)]
    /\ pc' = "writer"
    /\ UNCHANGED <<registryVars, arg>>

NextTasks == CallGenerateTaskDefinitions \/ CallGenerateTaskDefinitionsFromSerialized

SpecTasks == InitTasks /\ [][NextTasks]_vars

(***************************************************************************)
(* YAML configurations: loaders.from_yaml and                              *)
(* template_loader.discover_yaml_dags.  A configuration file is what       *)
(* opening it and yaml.safe_load make of it: a failure to read or to       *)
(* parse, None (an empty file), a mapping, or a non-empty sequence.  The   *)
(* blueprints looked up are those of the template files; each has the      *)
(* config type of the tests, with the one required field job_id, and       *)
(* renders a DAG whose dag_id is the job_id.                               *)
(***************************************************************************)
MaxConfigs == 3

JobIds == {"customer-etl", "sales-etl"}

\* yaml.safe_load of a file that holds a mapping: the keys it has, and the
\* blueprint it names
YamlMappings ==
    {EmptyMap,
     [job_id |-> "customer-etl"],
     [blueprint |-> BlueprintNameOf[ETLJob]],
     [blueprint |-> BlueprintNameOf[NewBp], job_id |-> "customer-etl"]}
    \cup {[blueprint |-> BlueprintNameOf[ETLJob], job_id |-> j] : j \in JobIds}

YamlDocs ==
    {[read |-> "OSError", kind |-> "none", items |-> EmptyMap],
     [read |-> "YAMLError", kind |-> "none", items |-> EmptyMap],
     [read |-> "ok", kind |-> "none", items |-> EmptyMap],
     [read |-> "ok", kind |-> "sequence", items |-> EmptyMap]}
    \cup {[read |-> "ok", kind |-> "mapping", items |-> m] : m \in YamlMappings}

\* the config type of the template classes
TestConfig == <<[name |-> "job_id", kind |-> "required"]>>

\* the Blueprint subclass a template file defines
BlueprintClass(obj) == InitSubclass(TestConfig).class[1]

\* dag.dag_id of the DAG a template class renders: dag_id=config.job_id
DagId(dag) == dag.config["job_id"]

\* ConfigurationError(msg, config_path, ...) and its subclass YAMLParseError
ConfigurationError(msg) == [raised |-> "ConfigurationError", msg |-> msg, value |-> None]

\* config.pop("blueprint", None) leaves the other keys
Without(m, k) == [x \in (DOMAIN m) \ {k} |-> m[x]]

\* from_yaml once the blueprint class is found: validate_only answers with
\* the validated config, otherwise the class builds the DAG; a
\* ValidationError becomes a ConfigurationError
FromYamlResult(loaded_reg, did) ==
    [events |-> <<"open", "safe_load", "load_blueprint">> \o did.events,
     raised |-> IF did.raised = "ValidationError" THEN "ConfigurationError" ELSE did.raised,
     msg |-> IF did.raised = "ValidationError"
             THEN "Configuration validation failed" ELSE "",
     value |-> did.value,
     reg |-> loaded_reg]

\* blueprint_class.get_config_type()(**config) of the validate_only branch
ValidateOnly(validated) ==
    [events |-> <<"get_config_type", "validate">>, raised |-> validated.raised,
     value |-> validated.config]

\* from_yaml after load_blueprint returned or raised
FromYamlLoaded(loaded, config, validate_only) ==
    IF loaded.out.raised # "none"
    THEN [events |-> <<"open", "safe_load", "load_blueprint">>,
          raised |-> loaded.out.raised, msg |-> "", value |-> None, reg |-> loaded.reg]
    ELSE IF validate_only
    THEN FromYamlResult(loaded.reg,
            ValidateOnly(ValidateConfig(BlueprintClass(loaded.out.value[1]).config_type,
                                        config)))
    ELSE FromYamlResult(loaded.reg, Build(BlueprintClass(loaded.out.value[1]), config))

\* loaders.from_yaml(path, None, template_dir, validate_only): the calls it
\* makes, in order, the exception raised or the value returned, and the
\* process-wide registry afterwards
FromYaml(doc, template_dir, validate_only, reg, fsys, env, ord) ==
    LET done(events, out) ==
            [events |-> events, raised |-> out.raised, msg |-> out.msg,
             value |-> out.value, reg |-> reg]
    IN  IF doc.read = "YAMLError"
        THEN done(<<"open", "safe_load">>, ConfigurationError("the problem of the parse"))
        ELSE IF doc.read # "ok"
        THEN done(<<"open">>, ConfigurationError("Failed to read configuration file"))
        ELSE IF doc.kind = "none" \/ (doc.kind = "mapping" /\ DOMAIN doc.items = {})
        THEN done(<<"open", "safe_load">>, ConfigurationError("Configuration file is empty"))
        ELSE IF doc.kind = "sequence"
        THEN done(<<"open", "safe_load">>,
                  [raised |-> "TypeError", msg |-> "pop expected at most 1 argument, got 2",
                   value |-> None])
        ELSE IF "blueprint" \notin DOMAIN doc.items
        THEN done(<<"open", "safe_load">>,
                  ConfigurationError("Missing required field 'blueprint'"))
        ELSE FromYamlLoaded(LoadBlueprint(reg, doc.items["blueprint"], template_dir,
                                          fsys, env, ord),
                            Without(doc.items, "blueprint"), validate_only)

\* the config files a directory can hold, by the dot-separated parts of
\* their names; all match the pattern "*.dag.yaml"
ConfigNames ==
    {<<"customer", "dag", "yaml">>, <<"sales", "dag", "yaml">>,
     <<"sales", "dag", "dag", "yaml">>}

\* yaml_file.stem.replace(".dag", "")
DagName(yaml_file) ==
    LET stem == SubSeq(yaml_file, 1, Len(yaml_file) - 1)
    IN  <<stem[1]>> \o SelectSeq(Tail(stem), LAMBDA part : part # "dag")

\* DuplicateDAGIdError(dag_id, config_files)
DuplicateDAGIdError(dag_id, config_files) ==
    [raised |-> "DuplicateDAGIdError", dag_id |-> Some(dag_id),
     config_files |-> config_files]

\* the locals of discover_yaml_dags when the loop is entered
LoopStart(reg) ==
    [raised |-> "none", dag_id |-> None, config_files |-> <<>>,
     dags |-> EmptyMap, failed_configs |-> <<>>, dag_id_to_configs |-> EmptyMap,
     processed |-> <<>>, reg |-> reg]

\* a slip: a duplicate is recorded like any other failure and skipped
LoadConfig_RecordDuplicate(st, yaml_file, got) ==
    LET seen == [st EXCEPT !.processed = Append(@, yaml_file.name), !.reg = got.reg]
    IN  IF got.raised # "none"
        THEN [seen EXCEPT !.failed_configs = Append(@, <<yaml_file.name, got.raised>>)]
        ELSE LET dag == got.value[1]
                 dag_id == DagId(dag)
             IN  IF dag_id \in DOMAIN st.dag_id_to_configs
                 THEN [seen EXCEPT !.failed_configs =
                                    Append(@, <<yaml_file.name, "DuplicateDAGIdError">>)]
                 ELSE [seen EXCEPT
                        !.dag_id_to_configs = Put(@, dag_id, <<yaml_file.name>>),
                        !.dags = Put(@, DagName(yaml_file.name), dag)]

\* the body of "for yaml_file in config_files" with its except clauses, where
\* got is what from_yaml(str(yaml_file), template_dir=template_dir) did
LoadConfig(st, yaml_file, got) ==
    LET seen == [st EXCEPT !.processed = Append(@, yaml_file.name), !.reg = got.reg]
    IN  IF got.raised # "none"
        THEN [seen EXCEPT !.failed_configs = Append(@, <<yaml_file.name, got.raised>>)]
        ELSE LET dag == got.value[1]
                 dag_id == DagId(dag)
             IN  IF dag_id \in DOMAIN st.dag_id_to_configs
                 THEN LET conflicting_configs ==
                            st.dag_id_to_configs[dag_id] \o <<yaml_file.name>>
                          error == DuplicateDAGIdError(dag_id, conflicting_configs)
                      IN  [seen EXCEPT !.raised = error.raised,
                                       !.dag_id = error.dag_id,
                                       !.config_files = error.config_files]
                 ELSE [seen EXCEPT
                        !.dag_id_to_configs = Put(@, dag_id, <<yaml_file.name>>),
                        !.dags = Put(@, DagName(yaml_file.name), dag)]

RECURSIVE LoadConfigs(_, _, _, _, _, _, _)
LoadConfigs(st, config_files, i, template_dir, fsys, env, ord) ==
    IF i > Len(config_files) \/ st.raised # "none" THEN st
    ELSE LoadConfigs(LoadConfig(st, config_files[i],
                                FromYaml(config_files[i].doc, template_dir, FALSE,
                                         st.reg, fsys, env, ord)),
                     config_files, i + 1, template_dir, fsys, env, ord)

\* template_loader.discover_yaml_dags(configs_dir, template_dir): exists is
\* configs_dir_path.exists(), config_files the files the glob lists, in its
\* order, each with what it holds
DiscoverYamlDags(exists, config_files, template_dir, reg, fsys, env, ord) ==
    IF ~exists \/ config_files = <<>> THEN LoopStart(reg)
    ELSE LoadConfigs(LoopStart(reg), config_files, 1, template_dir, fsys, env, ord)

\* the glob results considered: up to MaxConfigs files with distinct names,
\* in any order, each holding any document
ConfigFiles ==
    LET orders == {q \in SeqsUpTo(ConfigNames, MaxConfigs) :
                        \A i, j \in DOMAIN q : i # j => q[i] # q[j]}
    IN  UNION {{[i \in DOMAIN q |-> [name |-> q[i], doc |-> d[q[i]]]] :
                    d \in [{q[i] : i \in DOMAIN q} -> YamlDocs]} : q \in orders}

\* the template directory holds f.py, declaring ETLJob, or holds nothing
YamlFileSystems ==
    {f \in FileSystems :
        /\ f[<<DirA, "f.py">>] \in {"ETLJob", "absent"}
        /\ f[<<DirA, "g.py">>] = "absent"
        /\ f[<<DirB, "f.py">>] = "absent"}

InitYaml ==
    /\ fs \in YamlFileSystems
    /\ envPath = <<DirA>>
    /\ cwd = WorkDir
    /\ registry = NewRegistry
    /\ last = NoCall
    /\ changes = 0
    /\ ident = <<>>
    /\ key = <<>>
    /\ pc = "input"
    /\ arg \in {a \in [exists : BOOLEAN, config_files : ConfigFiles,
                        validate_only : BOOLEAN] :
                    /\ a.validate_only => Len(a.config_files) = 1
                    /\ ~a.exists => a.config_files = <<>> /\ ~a.validate_only}
    /\ ret = <<>>

\* from_yaml(str(arg.config_files[1]), template_dir=DirA, validate_only=...)
CallFromYaml ==
    \E ord \in GlobOrders :
        /\ pc = "input"
        /\ arg.exists
        /\ Len(arg.config_files) = 1
        /\ ret' = FromYaml(arg.config_files[1].doc, Some(DirA), arg.validate_only,
                            registry, fs, envPath, ord)
        /\ registry' = ret'.reg
        /\ pc' = "from_yaml"
        /\ UNCHANGED <<envVars, last, ident, key, arg>>

\* discover_yaml_dags(configs_dir, template_dir=DirA)
CallDiscoverYamlDags ==
    \E ord \in GlobOrders :
        /\ pc = "input"
        /\ ~arg.validate_only
        /\ ret' = DiscoverYamlDags(arg.exists, arg.config_files, Some(DirA),
                                    registry, fs, envPath, ord)
        /\ registry' = ret'.reg
        /\ pc' = "discover_yaml_dags"
        /\ UNCHANGED <<envVars, last, ident, key, arg>>

NextYaml == CallFromYaml \/ CallDiscoverYamlDags

SpecYaml == InitYaml /\ [][NextYaml]_vars

(***************************************************************************)
(* Discovery over template files that bind a blueprint class to more than  *)
(* one module-level name: f.py of the first directory defines ETLJob and   *)
(* may bind it to a second name, and g.py may import it from f.py.  The    *)
(* calls are those of the registry machine.                                *)
(***************************************************************************)
ModuleFileSystems ==
    {f \in [AllFiles -> DOMAIN SourceOf] :
        /\ f[<<DirA, "f.py">>] \in {"ETLJob", "ETLJob, Job = ETLJob", "NewBp", "absent"}
        /\ f[<<DirA, "g.py">>] \in {"from f import ETLJob", "EtlJob", "absent"}
        \* the import succeeds: f.py defines the class
        /\ f[<<DirA, "g.py">>] = "from f import ETLJob" =>
                f[<<DirA, "f.py">>] \in {"ETLJob", "ETLJob, Job = ETLJob"}
        /\ f[<<DirB, "f.py">>] \in {"ETLJob", "NewBp", "absent"}
        /\ f[<<DirB, "_p.py">>] = "NewBp"}

InitModules ==
    /\ fs \in ModuleFileSystems
    /\ envPath \in {<<DirA>>, <<DirA, DirB>>, <<DirB, DirB>>}
    /\ cwd = WorkDir
    /\ registry = NewRegistry
    /\ last = NoCall
    /\ changes = 0
    /\ ident = <<>>
    /\ key = <<>>
    /\ pc = "idle"
    /\ arg = <<>>
    /\ ret = <<>>

NextModules == CallDiscoverBlueprints \/ CallGetBlueprint

SpecModules == InitModules /\ [][NextModules]_vars

(***************************************************************************)
(* The registry answering between discovery passes while the templates     *)
(* change: get_blueprint and list_blueprints only, no forced discovery and *)
(* no clear.  Every template file holds one module-level class statement,  *)
(* so that the static scan and the import see the same classes in a file.  *)
(***************************************************************************)
PlainTexts == {"ETLJob", "EtlJob", "NewBp", "absent"}

InitSnapshot ==
    /\ fs \in {f \in FileSystems : \A x \in AllFiles : IsPrivate(x[2]) \/ f[x] \in PlainTexts}
    /\ envPath \in EnvChoices
    /\ cwd = WorkDir
    /\ registry = NewRegistry
    /\ last = NoCall
    /\ changes = 0
    /\ ident = <<>>
    /\ key = <<>>
    /\ pc = "idle"
    /\ arg = <<>>
    /\ ret = <<>>

\* a template file with one class statement is added, removed or rewritten
WriteTemplate ==
    \E f \in AllFiles, c \in PlainTexts :
        /\ changes < MaxChanges
        /\ c # fs[f]
        /\ c \in Contents(f) \cup {"absent"}
        /\ ~IsPrivate(f[2])
        /\ fs' = [fs EXCEPT ![f] = c]
        /\ changes' = changes + 1
        /\ last' = NoCall
        /\ UNCHANGED <<envPath, cwd, registry, nameVars>>

NextSnapshot == CallGetBlueprint \/ CallListBlueprints \/ WriteTemplate \/ SetEnv

SpecSnapshot == InitSnapshot /\ [][NextSnapshot]_vars

(***************************************************************************)
(* blueprint.loaders: load_blueprint, discover_blueprints and              *)
(* get_blueprint_info, called after the process-wide registry has or has   *)
(* not discovered and listed the directories of the environment.           *)
(***************************************************************************)
\* loaders.discover_blueprints(template_dir)
LoadersDiscoverBlueprints(reg, template_dir, fsys, env, ord, ord2) ==
    IF template_dir # None
    THEN OfTemporary(reg,
            ListBlueprints(DiscoverBlueprints(NewRegistry, TRUE, fsys,
                                              <<template_dir[1]>>, ord),
                           fsys, <<template_dir[1]>>, ord, ord2))
    ELSE OfGlobal(
            ListBlueprints(DiscoverBlueprints(reg, FALSE, fsys,
                                              GetTemplateDirs(fsys, env), ord),
                           fsys, GetTemplateDirs(fsys, env), ord, ord2))

\* loaders.get_blueprint_info(blueprint_name, template_dir)
LoadersGetBlueprintInfo(reg, blueprint_name, template_dir, fsys, env, ord) ==
    IF template_dir # None
    THEN OfTemporary(reg,
            GetBlueprintInfo(DiscoverBlueprints(NewRegistry, TRUE, fsys,
                                                <<template_dir[1]>>, ord),
                             blueprint_name, fsys, <<template_dir[1]>>, ord))
    ELSE OfGlobal(
            GetBlueprintInfo(DiscoverBlueprints(reg, FALSE, fsys,
                                                GetTemplateDirs(fsys, env), ord),
                             blueprint_name, fsys, GetTemplateDirs(fsys, env), ord))

InitLoaders ==
    /\ fs \in FileSystems
    /\ envPath \in {<<DirA>>, <<DirA, DirB>>}
    /\ cwd = WorkDir
    /\ registry = NewRegistry
    /\ last = NoCall
    /\ changes = 0
    /\ ident = <<>>
    /\ key = <<>>
    /\ pc = "input"
    /\ arg \in [blueprint_name : {BlueprintNameOf[ETLJob], BlueprintNameOf[NewBp]},
                template_dir : TemplateDirArgs]
    /\ ret = <<>>

\* before the loaders are called: registry.discover_blueprints(force) and
\* registry.list_blueprints() on the process-wide registry
PriorDiscoverBlueprints == pc = "input" /\ CallDiscoverBlueprints
PriorListBlueprints == pc = "input" /\ CallListBlueprints

\* loaders.discover_blueprints(arg.template_dir)
CallLoadersDiscoverBlueprints ==
    \E ord \in GlobOrders, ord2 \in GlobOrders :
        \E r \in {LoadersDiscoverBlueprints(registry, arg.template_dir, fs, envPath,
                                           ord, ord2)} :
            /\ pc = "input"
            /\ registry' = r.reg
            /\ ret' = [before |-> registry, dirs |-> r.used.template_dirs,
                       used |-> r.used, out |-> r.out]
            /\ pc' = "listed"
            /\ UNCHANGED <<envVars, last, ident, key, arg>>

\* loaders.get_blueprint_info(arg.blueprint_name, arg.template_dir)
CallLoadersGetBlueprintInfo ==
    \E ord \in GlobOrders :
        \E r \in {LoadersGetBlueprintInfo(registry, arg.blueprint_name, arg.template_dir,
                                         fs, envPath, ord)} :
            /\ pc = "input"
            /\ registry' = r.reg
            /\ ret' = [before |-> registry, dirs |-> r.used.template_dirs,
                       used |-> r.used, out |-> r.out]
            /\ pc' = "described"
            /\ UNCHANGED <<envVars, last, ident, key, arg>>

NextLoaders ==
    \/ PriorDiscoverBlueprints
    \/ PriorListBlueprints
    \/ CallLoadBlueprint
    \/ CallLoadersDiscoverBlueprints
    \/ CallLoadersGetBlueprintInfo

SpecLoaders == InitLoaders /\ [][NextLoaders]_vars

(***************************************************************************)
(* Blueprint._get_template_name: the snake_case name the blueprint itself  *)
(* derives from its class identifier, next to the registry's derivation.   *)
(***************************************************************************)
\* the loop over enumerate(class_name), from character i on
RECURSIVE TemplateNameFrom(_, _)
TemplateNameFrom(class_name, i) ==
    IF i > Len(class_name) THEN <<>>
    ELSE (IF class_name[i] \in Upper /\ i > 1 /\ class_name[i - 1] \in Lower
          THEN <<"_">> ELSE <<>>)
         \o <<ToLower(class_name[i])>>
         \o TemplateNameFrom(class_name, i + 1)

\* Blueprint._get_template_name, for an instance of the class class_name
GetTemplateName(class_name) == TemplateNameFrom(class_name, 1)

\* X()._get_template_name() for the class named ident, after the registry
\* derived its key
DeriveTemplateName ==
    /\ pc = "done"
    /\ ret' = GetTemplateName(ident)
    /\ pc' = "both"
    /\ UNCHANGED <<envVars, registry, last, ident, key, arg>>

NextTemplateName == DeriveName \/ DeriveTemplateName

SpecTemplateName == InitName /\ [][NextTemplateName]_vars

(***************************************************************************)
(* Code generation: the string literals written.  A string value reaches   *)
(* the text through DAGWriter._format_serialized_value (operator           *)
(* parameters), through DAGWriter._format_value and the f'"{...}"' of      *)
(* descriptions and tags (both generators), or through the bash_command    *)
(* parameter of Blueprint._generate_single_task_definition.                *)
(***************************************************************************)
NL == "\n"

LiteralAlphabet == StrAlphabet \cup {NL, "n"}
LiteralStrings == SeqsUpTo(LiteralAlphabet, MaxStrLen)

\* DAGWriter._format_value(value) for a str, and f'"{dag.description}"',
\* f'"{tag}"', f'"{key}": "{value}"'
FormatValue(value) == <<DQ>> \o value \o <<DQ>>

\* bash_cmd = task.bash_command.replace('"', '\\"'); f'bash_command="{bash_cmd}"'
BashCommandParam(value) == <<DQ>> \o EscapeDoubleQuotes(value) \o <<DQ>>

InitLiteral ==
    /\ RegistryIdle
    /\ pc = "input"
    /\ arg \in LiteralStrings
    /\ ret = <<>>

\* writer._format_serialized_value(arg, "bash_command", task_type)
CallFormatSerializedString ==
    /\ pc = "input"
    /\ ret' = FormatSerializedValue(arg, "bash_command")[1]
    /\ pc' = "_format_serialized_value"
    /\ UNCHANGED <<registryVars, arg>>

\* writer._format_value(arg)
CallFormatValueString ==
    /\ pc = "input"
    /\ ret' = FormatValue(arg)
    /\ pc' = "_format_value"
    /\ UNCHANGED <<registryVars, arg>>

\* the bash_command parameter of a task whose bash_command is arg
CallBashCommandParam ==
    /\ pc = "input"
    /\ arg # <<>>
    /\ ret' = BashCommandParam(arg)
    /\ pc' = "_generate_single_task_definition"
    /\ UNCHANGED <<registryVars, arg>>

NextLiteral == CallFormatSerializedString \/ CallFormatValueString \/ CallBashCommandParam

SpecLiteral == InitLiteral /\ [][NextLiteral]_vars

(***************************************************************************)
(* What the template files declare, stated directly (not by a scan): an    *)
(* occurrence <<i, n, k>> is declaration k of file n of the i-th search     *)
(* directory.                                                              *)
(***************************************************************************)
Range(q) == {q[i] : i \in DOMAIN q}

CurrentDirs == GetTemplateDirs(fs, envPath)

Occurrences(dirs, forms, statuses) ==
    {o \in UNION {{<<i, n, k>> : k \in DOMAIN FileAt(fs, dirs[i], n).decls}
                  : i \in DOMAIN dirs, n \in FileNames} :
        /\ DirExists(fs, dirs[o[1]])
        /\ ~IsPrivate(o[2])
        /\ FileAt(fs, dirs[o[1]], o[2]).status \in statuses
        /\ FileAt(fs, dirs[o[1]], o[2]).decls[o[3]].form \in forms}

\* the classes a discovery pass over dirs is to register, and those the
\* static scan is to list
Loadable(dirs) == Occurrences(dirs, {"direct", "indirect"}, {"ok"})
Listable(dirs) == Occurrences(dirs, {"direct", "nested"}, {"ok", "import_error"})

OccName(dirs, o) == BlueprintNameOf[FileAt(fs, dirs[o[1]], o[2]).decls[o[3]].cls]
OccLocation(dirs, o) == RelativeTo(dirs[o[1]] \o <<o[2]>>, Parent(Parent(dirs[o[1]])))

NamesOf(dirs, occs) == {OccName(dirs, o) : o \in occs}
LocationsOf(dirs, occs, name) ==
    {OccLocation(dirs, o) : o \in {x \in occs : OccName(dirs, x) = name}}

LocationsIn(reg, name) ==
    IF name \in DOMAIN reg.blueprint_locations THEN reg.blueprint_locations[name] ELSE <<>>

\* the call just made ran a discovery pass over the files as they are now
PassRan ==
    \/ last.op = "discover_blueprints" /\ (last.force \/ ~last.was_discovered)
    \/ last.op \in {"get_blueprint", "list_blueprints", "get_blueprint_info"}
       /\ ~last.was_discovered

\* the list_blueprints call just made scanned the files instead of answering
\* from the cached listing
ScanRan ==
    last.op = "list_blueprints" /\ (~last.was_discovered \/ last.had_cache = None)

(***************************************************************************)
(* C1.  A name the discovered snapshot records with two (or more) distinct *)
(* locations: get_blueprint raises DuplicateBlueprintError, returns no     *)
(* class, and the error lists exactly the recorded locations, as a set;    *)
(* when the call itself ran the pass, these are the locations of the files *)
(* that declare the name, whichever directory was scanned first.           *)
(***************************************************************************)
C1_DuplicateRaises ==
    (last.op = "get_blueprint"
        /\ Cardinality(Range(LocationsIn(registry, last.name))) >= 2)
    => /\ last.out.raised = "DuplicateBlueprintError"
       /\ last.out.value = None
       /\ last.out.err_name = last.name
       /\ Range(last.out.err_locations) = Range(LocationsIn(registry, last.name))
       /\ (~last.was_discovered =>
            Range(last.out.err_locations)
                = LocationsOf(CurrentDirs, Loadable(CurrentDirs), last.name))

\* DirB is scanned before DirA and both declare the name asked for
C1_Witness ==
    /\ last.op = "get_blueprint"
    /\ envPath = <<DirB, DirA>>
    /\ last.out.raised = "DuplicateBlueprintError"
    /\ last.out.err_locations = <<<<"x", "b", "f.py">>, <<"x", "a", "f.py">>>>

(***************************************************************************)
(* C2.  Conflicts surface lazily: discover_blueprints raises nothing and   *)
(* completes, also when a name has several locations; get_blueprint of a   *)
(* name with exactly one location returns its class, and get_blueprint     *)
(* raises DuplicateBlueprintError only for a name that has several.        *)
(***************************************************************************)
C2_LazyConflict ==
    /\ last.op = "discover_blueprints" =>
            last.out.raised = "none" /\ registry.discovered
    /\ (last.op = "get_blueprint" /\ Len(LocationsIn(registry, last.name)) = 1) =>
            /\ last.out.raised = "none"
            /\ last.out.value = Some(registry.blueprints[last.name])
            /\ BlueprintNameOf[registry.blueprints[last.name].name] = last.name
    /\ (last.op = "get_blueprint" /\ last.out.raised = "DuplicateBlueprintError") =>
            /\ last.out.err_name = last.name
            /\ Len(LocationsIn(registry, last.name)) > 1

\* a class is returned while another name has two locations
C2_Witness ==
    /\ last.op = "get_blueprint"
    /\ last.out.raised = "none"
    /\ last.out.value # None
    /\ \E n \in DOMAIN registry.blueprint_locations :
            n # last.name /\ Len(registry.blueprint_locations[n]) > 1

(***************************************************************************)
(* C3.  When list_blueprints scans, it raises DuplicateBlueprintError      *)
(* exactly when some name is declared twice in the scanned files, with the *)
(* two locations met so far; a listing it returns has one entry for each   *)
(* declared name, and each of these names has one declaration.             *)
(***************************************************************************)
C3_ListRaisesOnDuplicate ==
    ScanRan =>
        LET occs == Listable(CurrentDirs)
            twice == {n \in NamesOf(CurrentDirs, occs) :
                        Cardinality({o \in occs : OccName(CurrentDirs, o) = n}) >= 2}
        IN  /\ (last.out.raised = "DuplicateBlueprintError") = (twice # {})
            /\ last.out.raised \in {"none", "DuplicateBlueprintError"}
            /\ last.out.raised = "DuplicateBlueprintError" =>
                    /\ last.out.err_name \in twice
                    /\ Len(last.out.err_locations) = 2
                    /\ Range(last.out.err_locations)
                            \subseteq LocationsOf(CurrentDirs, occs, last.out.err_name)
                    /\ last.out.value = None
                    /\ registry.cached_list = None
            /\ last.out.raised = "none" =>
                    /\ DOMAIN last.out.value[1] = NamesOf(CurrentDirs, occs)
                    /\ \A n \in DOMAIN last.out.value[1] :
                            /\ Cardinality({o \in occs : OccName(CurrentDirs, o) = n}) = 1
                            /\ last.out.value[1][n].locations
                                    = <<last.out.value[1][n].module>>
                            /\ {last.out.value[1][n].module}
                                    = LocationsOf(CurrentDirs, occs, n)

\* the first call on a registry is list_blueprints, and it raises
C3_Witness ==
    /\ last.op = "list_blueprints"
    /\ ~last.was_discovered
    /\ last.had_names = {}
    /\ changes = 0
    /\ last.out.raised = "DuplicateBlueprintError"
    /\ Cardinality(Range(last.out.err_locations)) = 2

\* the registry a pass over the files as they are now builds from nothing,
\* for each order in which the files can be listed
FreshPasses ==
    {DiscoverBlueprints(NewRegistry, TRUE, fs, CurrentDirs, ord) : ord \in GlobOrders}

(***************************************************************************)
(* C4.  discover_blueprints(force=False) on a registry that has completed  *)
(* a pass changes none of the five fields of the registry.                 *)
(***************************************************************************)
C4_DiscoverNoForceIsNoOp ==
    [][(last'.op = "discover_blueprints" /\ ~last'.force /\ registry.discovered)
        => registry' = registry]_vars

\* the call is made after a file or the environment changed, and a pass now
\* would have built other maps than the registry holds
C4_Witness ==
    /\ last.op = "discover_blueprints"
    /\ ~last.force
    /\ last.was_discovered
    /\ changes > 0
    /\ \A r \in FreshPasses : r.blueprint_locations # registry.blueprint_locations

(***************************************************************************)
(* C5.  After discover_blueprints(force=True) the two maps hold exactly    *)
(* what the current files of the current search directories declare, with  *)
(* nothing left of an earlier pass, and the cached listing is dropped: the *)
(* next list_blueprints scans the files as they are.                       *)
(***************************************************************************)
C5_ForcedDiscoveryReplaces ==
    /\ (last.op = "discover_blueprints" /\ last.force) =>
            LET occs == Loadable(CurrentDirs)
            IN  /\ registry.discovered
                /\ registry.template_dirs = CurrentDirs
                /\ registry.cached_list = None
                /\ DOMAIN registry.blueprints = NamesOf(CurrentDirs, occs)
                /\ DOMAIN registry.blueprint_locations = NamesOf(CurrentDirs, occs)
                /\ \A n \in DOMAIN registry.blueprint_locations :
                        /\ Range(registry.blueprint_locations[n])
                                = LocationsOf(CurrentDirs, occs, n)
                        /\ Len(registry.blueprint_locations[n])
                                = Cardinality({o \in occs : OccName(CurrentDirs, o) = n})
                /\ \A n \in DOMAIN registry.blueprints :
                        \E o \in occs :
                            /\ OccName(CurrentDirs, o) = n
                            /\ registry.blueprints[n].file
                                    = <<Resolve(CurrentDirs[o[1]]), o[2]>>
    /\ (last.op = "list_blueprints" /\ last.had_cache = None /\ last.out.raised = "none") =>
            /\ DOMAIN last.out.value[1] = NamesOf(CurrentDirs, Listable(CurrentDirs))
            /\ registry.cached_list = last.out.value

\* a forced pass after a change of the files drops a name of the earlier pass
C5_Witness ==
    /\ last.op = "discover_blueprints"
    /\ last.force
    /\ last.was_discovered
    /\ last.had_cache # None
    /\ changes > 0
    /\ \E n \in last.had_names : n \notin DOMAIN registry.blueprints

(***************************************************************************)
(* C6 as stated.  get_blueprint of a name no discovered file declares      *)
(* raises BlueprintNotFoundError and leaves both maps unchanged.           *)
(***************************************************************************)
C6_NotFoundLeavesMapsUnchanged ==
    [][(last'.op = "get_blueprint"
            /\ last'.name \notin DOMAIN registry'.blueprint_locations)
        => /\ last'.out.raised = "BlueprintNotFoundError"
           /\ registry'.blueprints = registry.blueprints
           /\ registry'.blueprint_locations = registry.blueprint_locations]_vars

(***************************************************************************)
(* C6 amended.  get_blueprint of a name no discovered file declares raises *)
(* BlueprintNotFoundError with the name asked for and the set of all known *)
(* names, and returns nothing; the maps are unchanged when a discovery     *)
(* pass had completed before the call, and are otherwise exactly those of  *)
(* the pass the call runs first.                                           *)
(***************************************************************************)
C6_NotFoundAmended ==
    [][(last'.op = "get_blueprint"
            /\ last'.name \notin DOMAIN registry'.blueprint_locations)
        => /\ last'.out.raised = "BlueprintNotFoundError"
           /\ last'.out.value = None
           /\ last'.out.err_name = last'.name
           /\ last'.out.err_available = DOMAIN registry'.blueprint_locations
           /\ last'.name \notin last'.out.err_available
           /\ registry.discovered => registry' = registry
           /\ ~registry.discovered =>
                \E ord \in GlobOrders :
                    registry' = DiscoverBlueprints(NewRegistry, TRUE, fs',
                                                   GetTemplateDirs(fs', envPath'), ord)]_vars

\* a miss on a discovered registry that knows other names
C6_Witness ==
    /\ last.op = "get_blueprint"
    /\ last.name = Nope
    /\ last.was_discovered
    /\ last.out.raised = "BlueprintNotFoundError"
    /\ Cardinality(last.out.err_available) = 2

(***************************************************************************)
(* C7.  After clear() both maps are empty and the discovered flag is       *)
(* false; the next get_blueprint or list_blueprints runs a pass and        *)
(* answers from the files as they are then, not from the cached listing.   *)
(***************************************************************************)
C7_ClearForcesRediscovery ==
    /\ last.op = "clear" =>
            /\ registry.blueprints = EmptyMap
            /\ registry.blueprint_locations = EmptyMap
            /\ ~registry.discovered
    /\ ~registry.discovered =>
            registry.blueprints = EmptyMap /\ registry.blueprint_locations = EmptyMap
    /\ (last.op \in {"get_blueprint", "list_blueprints"} /\ ~last.was_discovered) =>
            /\ registry.discovered
            /\ \E r \in FreshPasses :
                    /\ registry.blueprints = r.blueprints
                    /\ registry.blueprint_locations = r.blueprint_locations
                    /\ last.op = "get_blueprint" =>
                            last.out = GetBlueprintLookup(r, last.name)
            /\ last.op = "list_blueprints" =>
                    /\ \E ord \in GlobOrders :
                            last.out = ListBlueprintsWithoutImport(fs, CurrentDirs, ord)
                    /\ last.out.raised = "none" =>
                            DOMAIN last.out.value[1]
                                = NamesOf(CurrentDirs, Listable(CurrentDirs))

\* list_blueprints after clear() and a change of the files returns another
\* listing than the one cached before the clear
C7_Witness ==
    /\ last.op = "list_blueprints"
    /\ ~last.was_discovered
    /\ last.had_cache # None
    /\ last.out.raised = "none"
    /\ last.out.value # last.had_cache
    /\ changes > 0

(***************************************************************************)
(* C8.  A pass skips a file that cannot be loaded and goes on: the pass    *)
(* completes with the discovered flag set, no entry of either map comes    *)
(* from a failing file, and every blueprint of every loadable file of      *)
(* every search directory is registered with its location.                 *)
(***************************************************************************)
FailingFiles(dirs) ==
    {<<i, n>> \in (DOMAIN dirs) \X FileNames :
        /\ DirExists(fs, dirs[i])
        /\ ~IsPrivate(n)
        /\ FileAt(fs, dirs[i], n).status \in {"import_error", "syntax_error"}}

C8_FailingFileSkipped ==
    PassRan =>
        /\ registry.discovered
        /\ last.op = "discover_blueprints" => last.out.raised = "none"
        /\ \A ff \in FailingFiles(CurrentDirs) :
                /\ \A n \in DOMAIN registry.blueprint_locations :
                        RelativeTo(CurrentDirs[ff[1]] \o <<ff[2]>>,
                                   Parent(Parent(CurrentDirs[ff[1]])))
                            \notin Range(registry.blueprint_locations[n])
                /\ \A n \in DOMAIN registry.blueprints :
                        registry.blueprints[n].file # <<Resolve(CurrentDirs[ff[1]]), ff[2]>>
        /\ \A o \in Loadable(CurrentDirs) :
                /\ OccName(CurrentDirs, o) \in DOMAIN registry.blueprints
                /\ OccName(CurrentDirs, o) \in DOMAIN registry.blueprint_locations
                /\ OccLocation(CurrentDirs, o)
                        \in Range(registry.blueprint_locations[OccName(CurrentDirs, o)])

\* a pass met a failing file in the first directory and registered a class
\* of a later directory
C8_Witness ==
    /\ last.op = "discover_blueprints"
    /\ PassRan
    /\ envPath = <<DirA, DirB>>
    /\ FileAt(fs, DirA, "f.py").status = "import_error"
    /\ FileAt(fs, DirA, "g.py").status = "syntax_error"
    /\ \E n \in DOMAIN registry.blueprints : registry.blueprints[n].file = <<DirB, "f.py">>

(***************************************************************************)
(* C9 as stated.  When every file loads and no name is duplicated, the     *)
(* names list_blueprints returns are the names get_blueprint can return    *)
(* after discovery.                                                        *)
(***************************************************************************)
C9_ListingMatchesDiscovery ==
    (/\ last.op = "list_blueprints"
     /\ ~last.was_discovered
     /\ last.out.raised = "none"
     /\ FailingFiles(CurrentDirs) = {}
     /\ \A n \in DOMAIN registry.blueprint_locations :
            Len(registry.blueprint_locations[n]) = 1)
    => DOMAIN last.out.value[1]
            = {n \in DOMAIN registry.blueprints :
                    GetBlueprintLookup(registry, n).raised = "none"}

(***************************************************************************)
(* C10.  The key derived from an identifier is the identifier lowercased,  *)
(* with one underscore put at each word boundary and nowhere else: after   *)
(* a capital that is followed by a capital and then a lowercase letter     *)
(* (the end of a run of capitals before a capitalized word), and after a   *)
(* lowercase letter or digit that is followed by a capital.  The key has   *)
(* no uppercase letter, and DailyETLJob gives daily_etl_job.               *)
(***************************************************************************)
AcronymBoundary(s, p) ==
    /\ p + 2 <= Len(s)
    /\ s[p] \in Upper
    /\ s[p + 1] \in Upper
    /\ s[p + 2] \in Lower

CamelBoundary(s, p) ==
    /\ p + 1 <= Len(s)
    /\ s[p] \in Lower \cup Digit
    /\ s[p + 1] \in Upper

RECURSIVE WithBoundaries(_, _)
WithBoundaries(s, p) ==
    IF p > Len(s) THEN <<>>
    ELSE <<ToLower(s[p])>>
         \o (IF AcronymBoundary(s, p) \/ CamelBoundary(s, p) THEN <<"_">> ELSE <<>>)
         \o WithBoundaries(s, p + 1)

C10_NameDerivation ==
    pc = "done" =>
        /\ key = WithBoundaries(ident, 1)
        /\ \A i \in DOMAIN key : key[i] \notin Upper
        /\ ident = DailyETLJob =>
                key = <<"d","a","i","l","y","_","e","t","l","_","j","o","b">>
        /\ ident = Http2Server =>
                key = <<"h","t","t","p","2","_","s","e","r","v","e","r">>

\* the key of DailyETLJob has been derived
C10_Witness ==
    /\ pc = "done"
    /\ ident = DailyETLJob
    /\ key = <<"d","a","i","l","y","_","e","t","l","_","j","o","b">>

(***************************************************************************)
(* C11 as stated.  The search directories are the explicit override, then  *)
(* the non-empty entries of BLUEPRINT_TEMPLATE_PATH in order, then the     *)
(* default path, then the local path if it exists.                         *)
(***************************************************************************)
EnvEntries == SelectSeq(envPath, LAMBDA e : e # <<>>)

\* the default path, and the local path if it exists, each unless the
\* entries before it already hold it
ConventionDirs ==
    (IF DefaultPath \in Range(EnvEntries) THEN <<>> ELSE <<DefaultPath>>)
    \o (IF LocalPath \notin Range(EnvEntries) /\ DirExists(fs, LocalPath)
        THEN <<LocalPath>> ELSE <<>>)

Accepted(schema, kwargs) ==
    \A i \in DOMAIN schema :
        /\ schema[i].name \in DOMAIN kwargs => kwargs[schema[i].name] = "ok"
        /\ schema[i].kind = "required" => schema[i].name \in DOMAIN kwargs

C12_BuildValidatesThenRenders ==
    pc = "done" =>
        LET b == ret.built[1]
            schema == arg.schema
        IN  /\ Accepted(schema, arg.kwargs) =>
                /\ b.events = <<"validate", "instantiate", "render">>
                /\ b.raised = "none"
                /\ b.value = Some(Render(ret.defined.class[1], b.value[1].config))
                /\ DOMAIN b.value[1].config = {schema[k].name : k \in DOMAIN schema}
                /\ \A k \in DOMAIN schema :
                        b.value[1].config[schema[k].name]
                            = IF schema[k].name \in DOMAIN arg.kwargs THEN "ok"
                              ELSE IF schema[k].kind = "default" THEN "the default"
                              ELSE "made by the factory"
            /\ ~Accepted(schema, arg.kwargs) =>
                /\ b.raised = "ValidationError"
                /\ b.value = None
                /\ \A k \in DOMAIN b.events : b.events[k] # "render"

\* a call with one field given, one left to its default and an unknown
\* keyword argument returns render's DAG
C12_Witness ==
    /\ pc = "done"
    /\ Len(arg.schema) = 2
    /\ DOMAIN arg.kwargs = {"job_id", "extra"}
    /\ ret.built[1].raised = "none"
    /\ "retries" \in DOMAIN ret.built[1].value[1].config
    /\ ret.built[1].value[1].config["retries"] = "made by the factory"

(***************************************************************************)
(* C13 as stated.  For every schema (whose defaults can all be resolved)   *)
(* the class is created and the signature of build is cls followed by one  *)
(* keyword-only parameter per field, in field order, with the field's      *)
(* name, without default exactly when the field is required and with the   *)
(* field's default otherwise.                                              *)
(***************************************************************************)
DefaultsResolve(schema) == \A i \in DOMAIN schema : schema[i].kind # "factory_raises"

C13_SignatureMatchesSchema ==
    (pc # "input" /\ DefaultsResolve(arg.schema)) =>
        /\ ret.defined.raised = "none"
        /\ LET sig == ret.defined.class[1].signature
           IN  /\ Len(sig) = Len(arg.schema) + 1
               /\ sig[1].name = "cls"
               /\ \A i \in DOMAIN arg.schema :
                    /\ sig[i + 1].name = arg.schema[i].name
                    /\ sig[i + 1].kind = "KEYWORD_ONLY"
                    /\ (sig[i + 1].default = Empty) = (arg.schema[i].kind = "required")
                    /\ arg.schema[i].kind = "default" => sig[i + 1].default = "the default"
                    /\ arg.schema[i].kind = "factory" =>
                            sig[i + 1].default = "made by the factory"

(***************************************************************************)
(* C14 as stated.  When resolving the default of one field fails, the      *)
(* class is still created with a build method whose signature has the      *)
(* parameters of all other fields (schemas without a field named cls).     *)
(***************************************************************************)
C14_FailingDefaultDoesNotAbort ==
    (/\ pc # "input"
     /\ Cardinality({i \in DOMAIN arg.schema : arg.schema[i].kind = "factory_raises"}) = 1
     /\ \A i \in DOMAIN arg.schema : arg.schema[i].name # "cls")
    => /\ ret.defined.raised = "none"
       /\ \A i \in DOMAIN arg.schema :
            arg.schema[i].kind # "factory_raises" =>
                \E k \in DOMAIN ret.defined.class[1].signature :
                    ret.defined.class[1].signature[k].name = arg.schema[i].name

(***************************************************************************)
(* C15 as stated.  The text Blueprint._generate_dag_code produces declares *)
(* exactly the tasks of the graph, each with its operator class, before    *)
(* any dependency line, and its dependency lines denote exactly the edge   *)
(* set of the graph.                                                       *)
(***************************************************************************)
IsTaskLine(line) == Len(line) >= 2 /\ line[2] = "="

C15_DependenciesDenoteEdges ==
    pc = "core" =>
        /\ \A i, j \in DOMAIN ret.code :
                (IsTaskLine(ret.code[i]) /\ ~IsTaskLine(ret.code[j])) => i < j
        /\ {<<ret.code[i][1], ret.code[i][3]>> : i \in {k \in DOMAIN ret.code : IsTaskLine(ret.code[k])}}
                = {<<arg.tasks[k], arg.class[arg.tasks[k]]>> : k \in DOMAIN arg.tasks}
        /\ LinesEdges(ret.dependencies) = arg.edges

(***************************************************************************)
(* C16.  DAGWriter._generate_dependencies_from_serialized emits exactly    *)
(* one line "A >> B" for each edge (A, B) and nothing else: no line twice, *)
(* no bracketed list, no line for a task without downstream tasks, lines   *)
(* in task order and, for one task, in the order of its downstream ids.    *)
(***************************************************************************)
Position(q, x) == CHOOSE k \in DOMAIN q : q[k] = x

C16_OneLinePerEdge ==
    pc = "writer" =>
        LET lines == ret.dependencies
        IN  /\ Len(lines) = Cardinality(arg.edges)
            /\ \A i \in DOMAIN lines :
                    /\ Len(lines[i]) = 3
                    /\ lines[i][2] = ">>"
                    /\ <<lines[i][1], lines[i][3]>> \in arg.edges
            /\ \A i, j \in DOMAIN lines : i # j => lines[i] # lines[j]
            /\ \A e \in arg.edges : \E i \in DOMAIN lines : lines[i] = <<e[1], ">>", e[2]>>
            /\ LinesEdges(lines) = arg.edges
            /\ \A i, j \in DOMAIN lines :
                    i < j =>
                        \/ Position(arg.tasks, lines[i][1]) < Position(arg.tasks, lines[j][1])
                        \/ /\ lines[i][1] = lines[j][1]
                           /\ Position(ret.iter, lines[i][3]) < Position(ret.iter, lines[j][3])

\* a graph with fan-out and fan-in whose last task comes first in dag.tasks
C16_Witness ==
    /\ pc = "writer"
    /\ arg.tasks = <<"load", "extract", "transform">>
    /\ arg.edges = {<<"extract", "transform">>, <<"extract", "load">>, <<"transform", "load">>}
    /\ ret.dependencies = <<<<"extract", ">>", "load">>, <<"extract", ">>", "transform">>,
                            <<"transform", ">>", "load">>>>

(***************************************************************************)
(* C17.  A duration of d whole seconds is written as hours = d / 3600 when *)
(* 3600 divides d, else as minutes = d / 60 when 60 divides d, else as     *)
(* seconds = d: the unit is the largest of the three that divides d, and   *)
(* the call written denotes exactly d.                                     *)
(***************************************************************************)
Divides(n, d) ==
    LET most == MaxSeconds \div n
    IN  \E q \in (0 - most)..most : q * n = d

C17_LargestWholeUnit ==
    pc = "done" =>
        /\ ret.call = "timedelta"
        /\ TimedeltaSeconds(ret) = arg
        /\ (ret.unit = "hours") = Divides(3600, arg)
        /\ (ret.unit = "minutes") = (Divides(60, arg) /\ ~Divides(3600, arg))
        /\ (ret.unit = "seconds") = ~Divides(60, arg)
        /\ arg = 3600 => ret.unit = "hours" /\ ret.number = 1
        /\ arg = 120 => ret.unit = "minutes" /\ ret.number = 2
        /\ arg = 90 => ret.unit = "seconds" /\ ret.number = 90

\* two hours are written as hours=2
C17_Witness ==
    /\ pc = "done"
    /\ arg = 7200
    /\ ret.unit = "hours"
    /\ ret.number = 2

(***************************************************************************)
(* C18.  A string value that contains a double quote and no single quote   *)
(* is written between single quotes with no character changed; any other   *)
(* string value is written between double quotes, each of its double       *)
(* quotes preceded by a backslash and no other character changed.  (An     *)
(* empty op_args or op_kwargs value is not written at all.)                *)
(***************************************************************************)
\* the number of double quotes among the first n characters of str
QuotesBefore(str, n) == Cardinality({k \in 1..n : str[k] = DQ})

C18_QuoteChoice ==
    (pc = "done" /\ ~(arg.key = "op_args" /\ arg.value = <<>>)) =>
        /\ ret # None
        /\ LET text == ret[1]
               value == arg.value
               inner == SubSeq(text, 2, Len(text) - 1)
           IN  /\ Len(text) >= 2
               /\ (Contains(value, DQ) /\ ~Contains(value, SQ)) =>
                    /\ text[1] = SQ
                    /\ text[Len(text)] = SQ
                    /\ inner = value
               /\ ~(Contains(value, DQ) /\ ~Contains(value, SQ)) =>
                    /\ text[1] = DQ
                    /\ text[Len(text)] = DQ
                    /\ Len(inner) = Len(value) + QuotesBefore(value, Len(value))
                    /\ \A k \in DOMAIN value :
                        LET at == k + QuotesBefore(value, k - 1)
                        IN  IF value[k] = DQ
                            THEN inner[at] = BS /\ inner[at + 1] = DQ
                            ELSE inner[at] = value[k]

\* a value with both kinds of quote is written between double quotes
C18_Witness ==
    /\ pc = "done"
    /\ arg.value = <<"a", DQ, SQ>>
    /\ ret = Some(<<DQ, "a", BS, DQ, SQ, DQ>>)

(***************************************************************************)
(* C19 as stated.  The header has at most one schedule parameter; when the *)
(* graph has both a schedule and a schedule_interval value, the value      *)
(* written is that of schedule; when it has neither, no schedule parameter *)
(* is written.                                                             *)
(***************************************************************************)
ScheduleParams(header) == {i \in DOMAIN header : header[i].name = "schedule"}

C19_UnifiedSchedulePreferred ==
    pc \in {"core", "writer"} =>
        /\ Cardinality(ScheduleParams(ret)) <= 1
        /\ (arg.schedule # None /\ arg.schedule_interval # None) =>
                \E i \in ScheduleParams(ret) : ret[i].text = ValueText(arg.schedule[1])
        /\ (arg.schedule = None /\ arg.schedule_interval = None) =>
                ScheduleParams(ret) = {}

(***************************************************************************)
(* C20 as stated.  Serialization never raises: the task section is written *)
(* for every graph; for a graph without tasks the task and dependency      *)
(* sections are empty; and for a task whose callable has no retrievable    *)
(* source, a placeholder function with the callable's own name comes       *)
(* immediately before the statement that constructs the task.              *)
(***************************************************************************)
C20_SerializationAlwaysSucceeds ==
    pc \in {"core", "writer"} =>
        /\ ret.tasks.raised = "none"
        /\ arg = <<>> => ret.tasks.code = <<>> /\ ret.dependencies = <<>>
        /\ \A i \in DOMAIN arg :
                (arg[i].python_callable # None /\ arg[i].python_callable[1].source # "ok") =>
                    \E k \in DOMAIN ret.tasks.code :
                        /\ k > 1
                        /\ ret.tasks.code[k].stmt = "task"
                        /\ ret.tasks.code[k].name = OperatorIds[i]
                        /\ ret.tasks.code[k - 1].stmt = "def"
                        /\ ret.tasks.code[k - 1].body = "placeholder"
                        /\ Some(ret.tasks.code[k - 1].name) = arg[i].python_callable[1].name

(***************************************************************************)
(* C21.  discover_yaml_dags, in terms of what from_yaml makes of each      *)
(* config file.  If some file yields a DAG whose dag_id an earlier file of *)
(* the run already yielded, the call raises DuplicateDAGIdError at the     *)
(* first such file: the error carries that dag_id and exactly the earlier  *)
(* file and the conflicting one, and no later file is processed.           *)
(* Otherwise the call returns; every file was processed, every file whose  *)
(* load failed is recorded as failed, and the result holds only DAGs that  *)
(* from_yaml returned, with pairwise distinct dag_ids.                     *)
(***************************************************************************)
\* what from_yaml makes of the i-th config file
LoadOf(i) ==
    FromYaml(arg.config_files[i].doc, Some(DirA), FALSE, NewRegistry, fs, envPath,
             <<"f.py", "g.py", "_p.py">>)

YieldsDag(i) == LoadOf(i).raised = "none"

\* file i yields a DAG with the dag_id of the DAG of an earlier file j
Conflicts(j, i) ==
    /\ j < i
    /\ YieldsDag(j)
    /\ YieldsDag(i)
    /\ DagId(LoadOf(j).value[1]) = DagId(LoadOf(i).value[1])

NamesOfFiles(n) == [i \in 1..n |-> arg.config_files[i].name]

C21_DuplicateDagIdStops ==
    pc = "discover_yaml_dags" =>
        LET n == Len(arg.config_files)
            conflicting == {i \in 1..n : \E j \in 1..n : Conflicts(j, i)}
        IN  IF conflicting # {}
            THEN LET i == CHOOSE k \in conflicting : \A m \in conflicting : k <= m
                     j == CHOOSE k \in 1..n : Conflicts(k, i)
                 IN  /\ ret.raised = "DuplicateDAGIdError"
                     /\ ret.dag_id = Some(DagId(LoadOf(i).value[1]))
                     /\ ret.config_files =
                            <<arg.config_files[j].name, arg.config_files[i].name>>
                     /\ ret.processed = NamesOfFiles(i)
            ELSE /\ ret.raised = "none"
                 /\ ret.processed = NamesOfFiles(n)
                 /\ \A i \in 1..n :
                        ~YieldsDag(i) <=>
                            \E k \in DOMAIN ret.failed_configs :
                                ret.failed_configs[k] =
                                    <<arg.config_files[i].name, LoadOf(i).raised>>
                 /\ \A name \in DOMAIN ret.dags :
                        \E i \in 1..n : /\ YieldsDag(i)
                                        /\ ret.dags[name] = LoadOf(i).value[1]
                 /\ \A a, b \in DOMAIN ret.dags :
                        a # b => DagId(ret.dags[a]) # DagId(ret.dags[b])

\* the first file fails to load, the second yields a DAG and the third
\* yields one with the same dag_id
C21_Witness ==
    /\ pc = "discover_yaml_dags"
    /\ Len(arg.config_files) = 3
    /\ ret.raised = "DuplicateDAGIdError"
    /\ ret.dag_id = Some("customer-etl")
    /\ ret.config_files = <<arg.config_files[2].name, arg.config_files[3].name>>
    /\ Len(ret.failed_configs) = 1
    /\ DOMAIN ret.dags = {DagName(arg.config_files[2].name)}

(***************************************************************************)
(* C22 as stated.  For a config file that is empty, and for one that has   *)
(* no 'blueprint' field, from_yaml raises ConfigurationError without       *)
(* looking up a blueprint: it makes no call of load_blueprint, validates   *)
(* no config, calls no render and leaves the process-wide registry as it   *)
(* was.  With validate_only=True a call that returns gives the validated   *)
(* config and never calls render.                                          *)
(***************************************************************************)
\* the file can be read and parsed, and what it holds is empty
IsEmptyDoc(doc) ==
    /\ doc.read = "ok"
    /\ doc.kind = "none" \/ (doc.kind = "mapping" /\ DOMAIN doc.items = {})

\* the file can be read and parsed, and what it holds has no 'blueprint' field
HasNoBlueprintField(doc) ==
    /\ doc.read = "ok"
    /\ ~(doc.kind = "mapping" /\ "blueprint" \in DOMAIN doc.items)

Made(events, call) == \E i \in DOMAIN events : events[i] = call

C22_RejectsBeforeLookup ==
    pc = "from_yaml" =>
        LET doc == arg.config_files[1].doc
        IN  /\ (IsEmptyDoc(doc) \/ HasNoBlueprintField(doc)) =>
                /\ ret.raised = "ConfigurationError"
                /\ ~Made(ret.events, "load_blueprint")
                /\ ~Made(ret.events, "validate")
                /\ ~Made(ret.events, "render")
                /\ registry = NewRegistry
            /\ (arg.validate_only /\ ret.raised = "none") =>
                /\ ret.value = ValidateConfig(TestConfig,
                                              Without(doc.items, "blueprint")).config
                /\ ~Made(ret.events, "render")

(***************************************************************************)
(* C23.  In every state the calls on the registry can reach, the           *)
(* name-to-class map and the name-to-locations map have the same key set,  *)
(* every recorded location list is non-empty, and both maps are empty      *)
(* whenever the discovered flag is false.                                  *)
(***************************************************************************)
C23_MapsAgree ==
    /\ DOMAIN registry.blueprints = DOMAIN registry.blueprint_locations
    /\ \A name \in DOMAIN registry.blueprint_locations :
            Len(registry.blueprint_locations[name]) >= 1
    /\ ~registry.discovered =>
            /\ registry.blueprints = EmptyMap
            /\ registry.blueprint_locations = EmptyMap

\* clear was called on a registry that had discovered the blueprint etl_job
C23_Witness ==
    /\ last.op = "clear"
    /\ last.was_discovered
    /\ BlueprintNameOf[ETLJob] \in last.had_names
    /\ ~registry.discovered
    /\ DOMAIN registry.blueprints = {}
    /\ DOMAIN registry.blueprint_locations = {}

(***************************************************************************)
(* C24 as stated.  The search directories are pairwise distinct and the    *)
(* template files hold exactly one class statement whose name derives to   *)
(* the name asked for, in a file that loads: after get_blueprint the       *)
(* registry records exactly one location for the name, and the call        *)
(* returns that class and raises no DuplicateBlueprintError, however many  *)
(* module-level names are bound to the class.                              *)
(***************************************************************************)
PairwiseDistinct(dirs) ==
    \A i, j \in DOMAIN dirs : i # j => Resolve(dirs[i]) # Resolve(dirs[j])

\* the class statements, in all files of the search directories
Definitions(dirs) ==
    Occurrences(dirs, {"direct", "indirect", "nested"}, {"ok", "import_error", "syntax_error"})

C24_DefinedOnceFoundOnce ==
    (/\ last.op = "get_blueprint"
     /\ PassRan
     /\ PairwiseDistinct(CurrentDirs)
     /\ \E o \in Loadable(CurrentDirs) :
            /\ OccName(CurrentDirs, o) = last.name
            /\ \A x \in Definitions(CurrentDirs) :
                    OccName(CurrentDirs, x) = last.name => x = o)
    => /\ Len(LocationsIn(registry, last.name)) = 1
       /\ last.out.raised = "none"
       /\ last.out.value # None
       /\ BlueprintNameOf[last.out.value[1].name] = last.name

(***************************************************************************)
(* C25 as stated.  The list get_template_dirs returns never holds two      *)
(* entries that denote the same directory, so after the discovery pass of  *)
(* load_blueprint a blueprint name that one class statement of one file    *)
(* declares is recorded with one location.                                 *)
(***************************************************************************)
\* the files and class statements behind the occurrences named name
DefinedAt(dirs, name) ==
    {<<Resolve(dirs[o[1]]), o[2], o[3]>> :
        o \in {x \in Loadable(dirs) : OccName(dirs, x) = name}}

C25_NoDirectoryTwice ==
    pc = "done" =>
        /\ PairwiseDistinct(ret.dirs)
        /\ \A name \in DOMAIN ret.used.blueprint_locations :
                Cardinality(DefinedAt(ret.dirs, name)) = 1 =>
                    Len(ret.used.blueprint_locations[name]) = 1

(***************************************************************************)
(* C26 as stated.  Without forced discovery and without clear, once        *)
(* list_blueprints has returned a listing, get_blueprint agrees with it:   *)
(* a name of the listing is not reported as not found, and a name whose    *)
(* class get_blueprint returns is in the listing.                          *)
(***************************************************************************)
\* the names of the listing list_blueprints returned and holds
ListedNames == DOMAIN registry.cached_list[1]

C26_ListingAndLookupAgree ==
    (last.op = "get_blueprint" /\ registry.cached_list # None) =>
        /\ last.name \in ListedNames => last.out.raised # "BlueprintNotFoundError"
        /\ last.out.raised = "none" => last.name \in ListedNames

(***************************************************************************)
(* C27.  A loaders call with an explicit template_dir leaves the           *)
(* process-wide registry as it was, whatever that registry had discovered  *)
(* or listed before, and answers from a registry that has scanned that     *)
(* directory and no other: the registry that answered holds exactly the    *)
(* classes and locations the files of the directory declare, and the       *)
(* outcome is the one these files determine.                               *)
(***************************************************************************)
C27_ExplicitDirFreshRegistry ==
    (pc \in {"done", "listed", "described"} /\ arg.template_dir # None) =>
        LET dirs == <<arg.template_dir[1]>>
            names == NamesOf(dirs, Loadable(dirs))
            name == arg.blueprint_name
            listed == NamesOf(dirs, Listable(dirs))
        IN  /\ registry = ret.before
            /\ ret.used.template_dirs = dirs
            /\ ret.used.discovered
            /\ DOMAIN ret.used.blueprints = names
            /\ \A n \in names :
                    /\ Range(ret.used.blueprint_locations[n]) =
                            LocationsOf(dirs, Loadable(dirs), n)
                    /\ Len(ret.used.blueprint_locations[n]) =
                            Cardinality({o \in Loadable(dirs) : OccName(dirs, o) = n})
            /\ pc \in {"done", "described"} =>
                    IF name \notin names
                    THEN /\ ret.out.raised = "BlueprintNotFoundError"
                         /\ ret.out.err_available = names
                    ELSE IF Len(ret.used.blueprint_locations[name]) > 1
                    THEN ret.out.raised = "DuplicateBlueprintError"
                    ELSE /\ ret.out.raised = "none"
                         /\ ret.out.value # None
            /\ pc = "listed" =>
                    IF \E a, b \in Listable(dirs) :
                            a # b /\ OccName(dirs, a) = OccName(dirs, b)
                    THEN ret.out.raised = "DuplicateBlueprintError"
                    ELSE /\ ret.out.raised = "none"
                         /\ DOMAIN ret.out.value[1] = listed

\* the process-wide registry had discovered and listed the directories of
\* the environment, which declare etl_job, and load_blueprint for the other
\* directory does not find it
C27_Witness ==
    /\ pc = "done"
    /\ arg.template_dir = Some(DirB)
    /\ arg.blueprint_name = BlueprintNameOf[ETLJob]
    /\ envPath = <<DirA>>
    /\ registry.discovered
    /\ registry.cached_list # None
    /\ BlueprintNameOf[ETLJob] \in DOMAIN registry.blueprints
    /\ registry = ret.before
    /\ ret.out.raised = "BlueprintNotFoundError"
    /\ ret.used.template_dirs = <<DirB>>

(***************************************************************************)
(* C28 as stated.  For every class identifier the template name of         *)
(* Blueprint._get_template_name equals the registry key of                 *)
(* BlueprintRegistry._get_blueprint_name.                                  *)
(***************************************************************************)
C28_TemplateNameIsRegistryKey ==
    pc = "both" => ret = key

(***************************************************************************)
(* C29 as stated.  Read back as source text, the literal written for a     *)
(* string value is one string literal and denotes the value.               *)
(***************************************************************************)
\* the characters a one-line string literal denotes, read from position i
\* on, the literal being quoted by q; "error" when the text is not one
\* string literal (ends before the closing quote, goes on after it, or
\* holds a line break)
RECURSIVE LiteralFrom(_, _, _)
LiteralFrom(text, i, q) ==
    IF i > Len(text) THEN [ok |-> FALSE, chars |-> <<>>]
    ELSE IF text[i] = q THEN [ok |-> i = Len(text), chars |-> <<>>]
    ELSE IF text[i] = NL THEN [ok |-> FALSE, chars |-> <<>>]
    ELSE IF text[i] = BS
    THEN IF i = Len(text) THEN [ok |-> FALSE, chars |-> <<>>]
         ELSE LET rest == LiteralFrom(text, i + 2, q)
                  c == text[i + 1]
                  \* backslash-newline continues the line, \n is a line break,
                  \* \\ \' \" are the character, any other pair is kept
                  denoted == CASE c = NL -> <<>>
                               [] c = "n" -> <<NL>>
                               [] c \in {BS, DQ, SQ} -> <<c>>
                               [] OTHER -> <<BS, c>>
              IN  [ok |-> rest.ok, chars |-> denoted \o rest.chars]
    ELSE LET rest == LiteralFrom(text, i + 1, q)
         IN  [ok |-> rest.ok, chars |-> <<text[i]>> \o rest.chars]

\* the value of the source text as a string literal, if it is one
ReadLiteral(text) ==
    IF Len(text) < 2 \/ text[1] \notin {DQ, SQ} THEN None
    ELSE LET read == LiteralFrom(text, 2, text[1])
         IN  IF read.ok THEN Some(read.chars) ELSE None

C29_LiteralDenotesValue ==
    pc \in {"_format_serialized_value", "_format_value",
            "_generate_single_task_definition"} =>
        ReadLiteral(ret) = Some(arg)

(***************************************************************************)
(* C30 as stated.  When the graph has a start date, the header has a       *)
(* start_date parameter, and the call written there constructs the source  *)
(* instant: the same date, the same time of day and the same offset from   *)
(* UTC, and it has a timezone exactly when the source has one.             *)
(***************************************************************************)
\* the datetime that "datetime(y, m, d)" or "datetime(y, m, d,
\* tzinfo=timezone.utc)" constructs: midnight, naive or at offset zero
DatetimeOf(call) ==
    [year |-> call[3], month |-> call[4], day |-> call[5], time |-> "00:00",
     tzinfo |-> IF \E i \in DOMAIN call : call[i] = "tzinfo"
                THEN Some("+00:00") ELSE None]

C30_StartInstantKept ==
    (pc \in {"core", "writer"} /\ arg.start_date # None) =>
        \E i \in DOMAIN ret :
            /\ ret[i].name = "start_date"
            /\ DatetimeOf(ret[i].text) = arg.start_date[1]

====
